---- MODULE Spec2Model ----
(***************************************************************************)
(* Model of the custom_compositor core: the Wayland commit handler, the    *)
(* surface manager, the Vulkan surface/compositor renderer, the session    *)
(* helper, backend initialisation and the compositor run loop.             *)
(***************************************************************************)
EXTENDS Integers, Sequences, FiniteSets, TLC

\* ------------------------------------------------------------------ bounds
MaxWlId == 2          \* protocol ids handed out to wl_surface objects
MaxSurfaceId == 2     \* cap on SurfaceManager::next_surface_id
MaxCommits == 2       \* cap on the number of wl_surface.commit requests
MaxTextureWlId == 1   \* protocol ids in use in the texture-cache specification
MaxDevices == 3       \* cap on the physical devices the instance enumerates
MaxWraps == 1         \* whole periods of 2^32 ms the monotonic clock passes
MaxDecoRequests == 3  \* cap on the decoration requests of one toplevel
MaxCallbacks == 1     \* frame callbacks queued per pending state

WlIds == 1..MaxWlId
Ids == 1..MaxSurfaceId
Black == 0            \* vec![0u8; ..]: the all-zero pixel pattern

VARIABLES
    \* --- Wayland front end (WaylandServerState) ---
    surfaces,          \* live wl_surface protocol ids
    roles,             \* role of each live surface
    current,           \* buffer of the last commit the client issued
    ncommit,           \* number of commits issued so far (commit identity)
    space,             \* Space<Window>: back-to-front list of mapped windows
    dispatched,        \* frame callbacks on which done() has been called
    \* --- SurfaceManager ---
    surface_mapping,   \* HashMap<u64, u32>, 0 = no entry
    next_surface_id,
    renderer_set,      \* SurfaceManager::renderer is Some
    \* --- VulkanRenderer / CompositorRenderer / SurfaceRenderer ---
    swapchain,         \* VulkanRenderer::swapchain is Some
    pipeline_ready,    \* surface_pipeline, descriptor_pool, command_buffers set
    surface_textures,  \* HashMap<u32, SurfaceTexture>
    vertex_buffers,    \* HashMap<u32, vk::Buffer>, as presence
    descriptor_sets,   \* HashMap<u32, vk::DescriptorSet>: image view bound
    destroyed_views,   \* image views passed to destroy_image_view
    pool_sets,         \* descriptor sets allocated from the pool, not freed
    owner,             \* the live surface each internal id was registered for
    last_frame,        \* draw order recorded by the last presented frame
    presented,         \* commits whose texture was in a presented frame
    panicked           \* the process hit a Rust panic

surfVars == <<surfaces, roles, current, ncommit, space, dispatched,
              surface_mapping, next_surface_id, renderer_set, swapchain,
              pipeline_ready, surface_textures, vertex_buffers,
              descriptor_sets, destroyed_views, pool_sets, owner, last_frame,
              presented, panicked>>

VARIABLES
    \* --- SessionManager (reactor side) ---
    sm,                \* "none" before SessionManager::new, "live", "dropped"
    sm_state,          \* SessionManager::state
    call,              \* the acquire/release call the reactor is blocked in
    last_acquire,      \* result of the last acquire_device that returned
    released,          \* descriptors a returned release_device was called for
    \* --- channels ---
    command_q,         \* command_tx -> command_rx
    event_q,           \* event_tx -> event_rx
    response,          \* response_tx -> response_rx of the call in progress
    \* --- SessionThread (helper thread) ---
    thread,            \* "none", "spawned", "serving", "exited"
    seat,              \* SessionThread::seat is Some
    device_fds,        \* HashMap<String, i32>, 0 = no entry
    open_fds,          \* file descriptors open in the process
    \* --- seat manager (environment) ---
    notified           \* last libseat::SeatEvent passed to the callback

sessVars == <<sm, sm_state, call, last_acquire, released, command_q, event_q,
              response,
              thread, seat, device_fds, open_fds, notified>>

VARIABLES
    \* --- Backend::new_with_type ---
    backend_pc,        \* "start", "wait", "check", "done"
    requested,         \* the BackendType asked for
    backend_type,      \* Backend::backend_type of the backend created
    result,            \* "none", "ok", "err": what new_with_type returned
    polls,             \* iterations of the activation loop entered
    elapsed            \* milliseconds slept in the activation loop

backVars == <<backend_pc, requested, backend_type, result, polls, elapsed>>

VARIABLES
    \* --- Compositor::run and the process ---
    run_pc,            \* "created", "loop", "join", "returned"
    loop_pc,           \* position of WaylandServer::run_async
    stop_signal,       \* LoopSignal::stop() has been called
    running,           \* Compositor::running (AtomicBool)
    bg,                \* background task: "none", "check", "process", "completed"
    proc,              \* "running", "exited", "killed"
    received           \* signal delivered to the process

loopVars == <<run_pc, loop_pc, stop_signal, running, bg, proc, received>>

VARIABLES
    \* --- session lock (ext-session-lock) ---
    locked             \* a lock has been confirmed and not yet unlocked

lockVars == <<locked>>

VARIABLES
    \* --- Clock<Monotonic> ---
    clock              \* milliseconds since boot: whole 2^32 periods and rest

clockVars == <<clock>>

VARIABLES
    \* --- main and Compositor::new ---
    new_pc,            \* position of Compositor::new
    init_error,        \* the step of Compositor::new that returned Err
    loop_error,        \* the call whose Err ended the run loop
    exit_code          \* exit status of the process, -1 while it runs

mainVars == <<new_pc, init_error, loop_error, exit_code>>

VARIABLES
    \* --- VulkanRenderer lifetime ---
    vk,                \* "none", "live", "failed", "dropped"
    vk_log             \* Vulkan teardown calls issued, in order

vkVars == <<vk, vk_log>>

VARIABLES
    \* --- xdg-decoration ---
    decoration,        \* pending decoration_mode of each toplevel
    configures,        \* decoration modes carried by the configures sent
    deco_requests      \* decoration requests received for each toplevel

decoVars == <<decoration, configures, deco_requests>>

VARIABLES
    \* --- physical-device selection ---
    enumerated,        \* the devices enumerate_physical_devices returned
    selected           \* index select_physical_device chose, 0 = Err

pdVars == <<enumerated, selected>>

VARIABLES
    \* --- utils::memory::MEMORY_TRACKER ---
    total_allocated,   \* AtomicUsize
    peak_allocated,    \* AtomicUsize
    tracker            \* per thread: the call it is in and its locals

memVars == <<total_allocated, peak_allocated, tracker>>

extVars == <<clockVars, mainVars, vkVars, decoVars, pdVars, memVars>>

vars == <<surfVars, sessVars, backVars, loopVars, lockVars, extVars>>

\* ------------------------------------------------------- surface attributes
NoBuffer == [kind |-> "none", pix |-> 0]
Removed == [kind |-> "removed", pix |-> 0]
\* BufferAssignment::NewBuffer: an SHM buffer, a DMA-BUF, or a buffer of
\* neither type.  pix names the pixel contents; every commit carries fresh
\* contents, numbered by the commit (0 until the buffer is committed).
NewKinds == {"shm", "dmabuf", "unknown"}
NewBuffers == [kind : NewKinds, pix : 0..MaxCommits]
NoAttrs == [buffer |-> NoBuffer, frame_callbacks |-> 0]
NoTexture == [view |-> 0, pix |-> 0]
NoCurrent == [buffer |-> NoBuffer, commit |-> 0, handled |-> "none"]

\* session helper
MaxFd == 2            \* file descriptor numbers the kernel hands out
MaxThreads == 2       \* threads calling into the memory tracker
MaxBytes == 3         \* cap on total_allocated
MaxEvents == 3        \* cap on undrained SessionEvents in the channel
Paths == {"card0", "card1", "absent"}   \* device paths; "absent" does not exist
Fds == 1..MaxFd
NoCall == [op |-> "none", path |-> "", fd |-> 0]
NoResponse == [kind |-> "none", fd |-> 0]

\* backend start-up
StartupPolls == 50    \* `for _ in 0..50`
PollSleepMs == 10     \* dispatch_events(Some(10)) and the 10 ms sleep
WaitLimitMs == 500    \* `// Wait up to 500ms`
BackendTypes == {"Windowed", "Drm", "Auto"}
Signals == {"SIGINT", "SIGTERM"}
Threads == 1..MaxThreads
Sizes == 1..MaxBytes
IdleCall == [pc |-> "idle", current |-> 0, peak |-> 0]

Init ==
    /\ surfaces = {}
    /\ roles = [w \in WlIds |-> "none"]
    /\ current = [w \in WlIds |-> NoCurrent]
    /\ ncommit = 0
    /\ space = <<>>
    /\ dispatched = {}
    /\ surface_mapping = [w \in WlIds |-> 0]
    /\ next_surface_id = 1
    /\ renderer_set = FALSE
    /\ swapchain = FALSE
    /\ pipeline_ready = FALSE
    /\ surface_textures = [i \in Ids |-> NoTexture]
    /\ vertex_buffers = [i \in Ids |-> FALSE]
    /\ descriptor_sets = [i \in Ids |-> 0]
    /\ destroyed_views = {}
    /\ last_frame = <<>>
    /\ presented = {}
    /\ panicked = FALSE
    /\ pool_sets = 0
    /\ owner = [i \in Ids |-> 0]
    /\ sm = "none"
    /\ sm_state = "Inactive"
    /\ call = NoCall
    /\ last_acquire = [ok |-> FALSE, fd |-> 0, state |-> "Inactive"]
    /\ released = {}
    /\ command_q = <<>>
    /\ event_q = <<>>
    /\ response = NoResponse
    /\ thread = "none"
    /\ seat = FALSE
    /\ device_fds = [p \in Paths |-> 0]
    /\ open_fds = {}
    /\ notified = "none"
    /\ backend_pc = "start"
    /\ requested = "none"
    /\ backend_type = "none"
    /\ result = "none"
    /\ polls = 0
    /\ elapsed = 0
    /\ run_pc = "created"
    /\ loop_pc = "idle"
    /\ stop_signal = FALSE
    /\ running = TRUE
    /\ bg = "none"
    /\ proc = "running"
    /\ received = "none"
    /\ locked = FALSE
    /\ clock = [wraps |-> 0, ms |-> 0]
    /\ new_pc = "start"
    /\ init_error = "none"
    /\ loop_error = "none"
    /\ exit_code = -1
    /\ vk = "none"
    /\ vk_log = <<>>
    /\ decoration = [w \in WlIds |-> "none"]
    /\ configures = [w \in WlIds |-> <<>>]
    /\ deco_requests = [w \in WlIds |-> <<>>]
    /\ enumerated = <<>>
    /\ selected = 0
    /\ total_allocated = 0
    /\ peak_allocated = 0
    /\ tracker = [t \in Threads |-> IdleCall]

\* ------------------------------------------------ SurfaceRenderer (texture cache)
\* The renderer maps are threaded through the update path as one record:
\*   tex = surface_textures, vb = vertex_buffers, ds = descriptor_sets,
\*   dv = destroyed_views, ns = pool_sets, ok = the Result of the step.
\* `gpu` names the Vulkan call that fails during the update ("ok" = none).
GpuOutcomes == {"ok", "image", "vertex", "descriptor"}

RendererState ==
    [tex |-> surface_textures, vb |-> vertex_buffers, ds |-> descriptor_sets,
     dv |-> destroyed_views, ns |-> pool_sets, ok |-> TRUE]

\* cleanup_surface_texture: destroy_image_view / destroy_image / free_memory
cleanup_surface_texture(dv, texture) == dv \cup {texture.view}

\* SurfaceRenderer::update_shm_texture: the old texture is removed and freed
\* first; the new one is inserted only if creation and upload succeed.
update_shm_texture(rs, surface_id, pix, view, gpu) ==
    LET old == rs.tex[surface_id]
        dv1 == IF old # NoTexture THEN cleanup_surface_texture(rs.dv, old)
               ELSE rs.dv
        tex1 == [rs.tex EXCEPT ![surface_id] = NoTexture]
    IN IF gpu = "image"
       THEN [rs EXCEPT !.tex = tex1, !.dv = dv1, !.ok = FALSE]
       ELSE [rs EXCEPT !.tex = [tex1 EXCEPT ![surface_id] =
                                   [view |-> view, pix |-> pix]],
                       !.dv = dv1]

\* CompositorRenderer::update_surface_vertex_buffer: the old buffer is
\* destroyed before the new one is created.
update_surface_vertex_buffer(rs, surface_id, gpu) ==
    IF gpu = "vertex"
    THEN [rs EXCEPT !.vb = [rs.vb EXCEPT ![surface_id] = FALSE], !.ok = FALSE]
    ELSE [rs EXCEPT !.vb = [rs.vb EXCEPT ![surface_id] = TRUE]]

\* CompositorRenderer::update_surface_descriptor_set: needs the descriptor
\* pool and the pipeline; allocates a new set and binds the texture's view.
\* The set stored before for the surface is overwritten, not freed.
update_surface_descriptor_set(rs, surface_id, ready, gpu) ==
    IF rs.tex[surface_id] = NoTexture \/ ~ready \/ gpu = "descriptor"
    THEN [rs EXCEPT !.ok = FALSE]
    ELSE [rs EXCEPT !.ds = [rs.ds EXCEPT ![surface_id] =
                                rs.tex[surface_id].view],
                    !.ns = rs.ns + 1]

\* CompositorRenderer::update_surface_texture: texture, then vertex buffer,
\* then descriptor set; `?` returns at the first failing step.
update_surface_texture(rs, surface_id, pix, view, ready, gpu) ==
    LET a == update_shm_texture(rs, surface_id, pix, view, gpu)
        b == update_surface_vertex_buffer(a, surface_id, gpu)
    IN IF ~a.ok THEN a
       ELSE IF ~b.ok THEN b
       ELSE update_surface_descriptor_set(b, surface_id, ready, gpu)

\* SurfaceRenderer::remove_surface_texture
\* A removal that empties the whole texture cache.
remove_every_texture(rs, surface_id) ==
    [rs EXCEPT !.tex = [i \in Ids |-> NoTexture],
               !.dv = rs.dv \cup ({rs.tex[i].view : i \in Ids} \ {0})]

remove_surface_texture(rs, surface_id) ==
    LET old == rs.tex[surface_id]
    IN IF old = NoTexture THEN rs
       ELSE [rs EXCEPT !.tex = [rs.tex EXCEPT ![surface_id] = NoTexture],
                       !.dv = cleanup_surface_texture(rs.dv, old)]

\* CompositorRenderer::remove_surface
CompositorRenderer_remove_surface(rs, surface_id) ==
    LET a == remove_surface_texture(rs, surface_id)
    IN [a EXCEPT !.vb = [a.vb EXCEPT ![surface_id] = FALSE],
                 !.ds = [a.ds EXCEPT ![surface_id] = 0]]

\* ------------------------------------------------------------ SurfaceManager
\* SurfaceManager::convert_wayland_buffer: DMA-BUF first, then SHM, else Err.
\* The result is the pixel data later handed to update_surface_buffer: the
\* client bytes for SHM, vec![0u8; w*h*4] for DMA-BUF; "err" = Err(..).
convert_wayland_buffer(buffer) ==
    CASE buffer.kind = "dmabuf" -> [ok |-> TRUE, data |-> Black]
      [] buffer.kind = "shm" -> [ok |-> TRUE, data |-> buffer.pix]
      [] OTHER -> [ok |-> FALSE, data |-> Black]

\* SurfaceManager::register_surface, as the new (mapping, next id) pair
register_surface(mapping, next, wl) ==
    [mapping |-> [mapping EXCEPT ![wl] = next], next |-> next + 1, id |-> next]

\* Sizes a client can give a DMA-BUF: width and height are u32.  The two
\* values keep width * height below 2^31.
DmaBufSizes == {1, 32768}
DmaBufDims == DmaBufSizes \X DmaBufSizes
QuarterU32 == 1073741824    \* 2^32 / 4

\* `(*width * *height * 4) as usize` of the DMA-BUF placeholder, in u32: the
\* product times 4 does not fit when the product reaches 2^30.  A build
\* with overflow checks panics there, one without wraps.
placeholder_len(dims, overflow_checks) ==
    LET p == dims[1] * dims[2]
    IN IF p >= QuarterU32
       THEN [panic |-> overflow_checks, len |-> (p % QuarterU32) * 4]
       ELSE [panic |-> FALSE, len |-> p * 4]

\* SurfaceManager::handle_surface_commit.  Result: the new mapping, next id
\* and renderer maps, ok = whether Ok(()) was returned, panic = whether the
\* call unwound instead of returning.
handle_surface_commit(mapping, next, rs, wl, buffer, view, ready, gpu, dims, overflow_checks) ==
    LET reg == IF mapping[wl] # 0
               THEN [mapping |-> mapping, next |-> next, id |-> mapping[wl]]
               ELSE register_surface(mapping, next, wl)
        conv == convert_wayland_buffer(buffer)
        upd == update_surface_texture(rs, reg.id, conv.data, view, ready, gpu)
    IN IF ~conv.ok
       THEN [mapping |-> reg.mapping, next |-> reg.next, rs |-> rs,
             ok |-> FALSE, panic |-> FALSE]
       ELSE IF ~renderer_set
       THEN [mapping |-> reg.mapping, next |-> reg.next, rs |-> rs,
             ok |-> TRUE, panic |-> FALSE]
       ELSE IF buffer.kind = "dmabuf"
               /\ placeholder_len(dims, overflow_checks).panic
       THEN [mapping |-> reg.mapping, next |-> reg.next, rs |-> rs,
             ok |-> FALSE, panic |-> TRUE]
       ELSE [mapping |-> reg.mapping, next |-> reg.next, rs |-> upd,
             ok |-> upd.ok, panic |-> FALSE]

\* A remove_surface that forgets the id and leaves the renderer alone.
remove_surface_mapping_only(mapping, rs, wl) ==
    [mapping |-> [mapping EXCEPT ![wl] = 0], rs |-> rs]

\* SurfaceManager::remove_surface
SurfaceManager_remove_surface(mapping, rs, wl) ==
    IF mapping[wl] = 0 THEN [mapping |-> mapping, rs |-> rs]
    ELSE [mapping |-> [mapping EXCEPT ![wl] = 0],
          rs |-> IF renderer_set
                 THEN CompositorRenderer_remove_surface(rs, mapping[wl])
                 ELSE rs]

SetRendererState(rs) ==
    /\ surface_textures' = rs.tex
    /\ vertex_buffers' = rs.vb
    /\ descriptor_sets' = rs.ds
    /\ destroyed_views' = rs.dv
    /\ pool_sets' = rs.ns

\* -------------------------------------------------- Wayland request handlers
\* CompositorHandler::new_surface: registers the protocol id.
new_surface(w) ==
    /\ ~panicked
    /\ w \notin surfaces
    /\ next_surface_id <= MaxSurfaceId
    /\ LET reg == register_surface(surface_mapping, next_surface_id, w)
       IN /\ surface_mapping' = reg.mapping
          /\ next_surface_id' = reg.next
          /\ owner' = [owner EXCEPT ![reg.id] = w]
    /\ surfaces' = surfaces \cup {w}
    /\ current' = [current EXCEPT ![w] = NoCurrent]
    /\ UNCHANGED <<roles, ncommit, space, dispatched, renderer_set, swapchain,
                   pipeline_ready, surface_textures, vertex_buffers,
                   descriptor_sets, destroyed_views, pool_sets, last_frame, presented,
                   panicked>>
    /\ UNCHANGED <<sessVars, backVars, loopVars, lockVars>>
    /\ UNCHANGED extVars

\* `self.next_surface_id += 1` executed 2^32 - k times on a u32 that holds
\* `next`, without overflow checks: the counter passes u32::MAX, wraps to 0
\* and ends k below where it started.
wrapping_registrations(next, k) == next - k

\* A client creates and destroys surfaces under protocol ids outside WlIds,
\* 2^32 - k times, each one registered by new_surface.  A build with
\* overflow checks panics at the addition that passes u32::MAX; one without
\* wraps.
surface_churn ==
    /\ ~panicked
    /\ \E overflow_checks \in BOOLEAN, k \in 1..(next_surface_id - 1) :
         IF overflow_checks
         THEN /\ panicked' = TRUE
              /\ UNCHANGED next_surface_id
         ELSE /\ next_surface_id' = wrapping_registrations(next_surface_id, k)
              /\ UNCHANGED panicked
    /\ UNCHANGED <<surfaces, roles, current, ncommit, space, dispatched,
                   surface_mapping, renderer_set, swapchain, pipeline_ready,
                   surface_textures, vertex_buffers, descriptor_sets,
                   destroyed_views, pool_sets, owner, last_frame, presented>>
    /\ UNCHANGED <<sessVars, backVars, loopVars, lockVars>>
    /\ UNCHANGED extVars

\* Space::refresh, called at the end of the commit handler: windows whose
\* toplevel is gone are dropped from the space.
refresh(sp) == SelectSeq(sp, LAMBDA e : e.alive)

\* A conversion that counts down from the largest sampled value.
as_u32_descending(t) == 2147483647 - t.ms

\* `time = self.clock.now().as_millis() as u32`: the low 32 bits.
as_u32(t) == t.ms

\* Clock<Monotonic>::now() between two calls: the clock has moved on to a
\* later instant.  Instants are sampled: MaxWraps whole periods of 2^32 ms
\* and a few values of the rest.
ClockLows == {0, 16, 2147483647}
ClockValues == [wraps : 0..MaxWraps, ms : ClockLows]

tick ==
    /\ proc = "running"
    /\ \E t \in ClockValues :
         /\ \/ t.wraps > clock.wraps
            \/ t.wraps = clock.wraps /\ t.ms > clock.ms
         /\ clock' = t
    /\ UNCHANGED <<surfVars, sessVars, backVars, loopVars, lockVars>>
    /\ UNCHANGED <<mainVars, vkVars, decoVars, pdVars, memVars>>

\* An Err of handle_surface_commit unwraps into a panic.
on_commit_error_unwrap(handled) ==
    IF handled = "err" THEN "panic" ELSE "continue"

\* `if let Err(e) = handle_surface_commit(..) { error!(..) }`: an Err is
\* logged and the handler goes on.
on_commit_error(handled) == "continue"

\* The body of CompositorHandler::commit for the attributes `seen` that
\* pending() returns: a new buffer goes to the surface manager (an error is
\* logged, not returned); every callback of `seen` gets done(now) at once.
commit(w, seen, c, gpu, dims, overflow_checks) ==
    LET h == IF seen.buffer \in NewBuffers
             THEN handle_surface_commit(surface_mapping, next_surface_id,
                      RendererState, w, seen.buffer, c, pipeline_ready, gpu,
                      dims, overflow_checks)
             ELSE [mapping |-> surface_mapping, next |-> next_surface_id,
                   rs |-> RendererState, ok |-> TRUE, panic |-> FALSE]
        handled == IF seen.buffer \notin NewBuffers THEN "skipped"
                   ELSE IF h.panic THEN "panic"
                   ELSE IF h.ok THEN "ok" ELSE "err"
        panic == h.panic \/ on_commit_error(handled) = "panic"
        fired == IF ~panic /\ seen.buffer # NoBuffer
                    /\ seen.frame_callbacks > 0
                 THEN {[wl |-> w, commit |-> c, presented |-> c \in presented,
                        time |-> as_u32(clock), period |-> clock.wraps]}
                 ELSE {}
    IN [mapping |-> h.mapping, next |-> h.next, rs |-> h.rs,
        handled |-> handled, panic |-> panic, fired |-> fired]

\* The pending attributes a client can have built up with attach and frame
\* requests when it commits: no buffer, a removal or a new buffer, with or
\* without frame callbacks.
PendingAttrs ==
    [buffer : {NoBuffer, Removed} \cup [kind : NewKinds, pix : {0}],
     frame_callbacks : 0..MaxCallbacks]

\* wl_surface.commit with `attrs` pending on the surface.  The compositor
\* framework promotes pending into current and empties pending; the handler
\* of this repository then reads pending().  Whether the handler still
\* finds the committed attributes there is decided by the framework, which
\* is outside this repository: both cases are kept (`drained`).
wl_surface_commit(w, attrs0) ==
    /\ ~panicked
    /\ w \in surfaces
    /\ attrs0 # NoAttrs
    /\ ncommit < MaxCommits
    /\ surface_mapping[w] # 0 \/ next_surface_id <= MaxSurfaceId
    /\ \E drained \in BOOLEAN, gpu \in GpuOutcomes, overflow_checks \in BOOLEAN,
          dims \in IF attrs0.buffer.kind = "dmabuf"
                   THEN DmaBufDims ELSE {<<1, 1>>} :
         LET c == ncommit + 1
             attrs == IF attrs0.buffer \in NewBuffers
                      THEN [attrs0 EXCEPT !.buffer.pix = c]
                      ELSE attrs0
             seen == IF drained THEN NoAttrs ELSE attrs
             r == commit(w, seen, c, gpu, dims, overflow_checks)
         IN /\ surface_mapping' = r.mapping
            /\ next_surface_id' = r.next
            /\ owner' = IF r.next # next_surface_id
                        THEN [owner EXCEPT ![next_surface_id] = w]
                        ELSE owner
            /\ SetRendererState(r.rs)
            /\ dispatched' = dispatched \cup r.fired
            /\ current' = [current EXCEPT ![w] =
                  IF attrs.buffer = NoBuffer THEN @
                  ELSE IF attrs.buffer = Removed THEN NoCurrent
                  ELSE [buffer |-> attrs.buffer, commit |-> c,
                        handled |-> r.handled]]
            /\ ncommit' = c
            /\ panicked' = r.panic
    /\ space' = refresh(space)
    /\ UNCHANGED <<surfaces, roles, renderer_set, swapchain, pipeline_ready,
                   last_frame, presented>>
    /\ UNCHANGED <<sessVars, backVars, loopVars, lockVars>>
    /\ UNCHANGED extVars

\* XdgShellHandler::new_toplevel: the window is mapped on top of the space.
new_toplevel(w) ==
    /\ ~panicked
    /\ w \in surfaces
    /\ roles[w] = "none"
    /\ Len(space) < MaxWlId
    /\ roles' = [roles EXCEPT ![w] = "toplevel"]
    /\ space' = Append(space, [wl |-> w, alive |-> TRUE])
    /\ UNCHANGED <<surfaces, current, ncommit, dispatched,
                   surface_mapping, next_surface_id, renderer_set, swapchain,
                   pipeline_ready, surface_textures, vertex_buffers,
                   descriptor_sets, destroyed_views, pool_sets, last_frame, presented,
                   panicked>>
    /\ UNCHANGED owner
    /\ UNCHANGED <<sessVars, backVars, loopVars, lockVars>>
    /\ UNCHANGED extVars

\* XdgShellHandler::toplevel_destroyed: the surface manager entry is removed;
\* the window is left in the space (it is only no longer alive).
toplevel_destroyed(w) ==
    /\ ~panicked
    /\ w \in surfaces
    /\ roles[w] = "toplevel"
    /\ LET r == SurfaceManager_remove_surface(surface_mapping, RendererState, w)
       IN /\ surface_mapping' = r.mapping
          /\ SetRendererState(r.rs)
    /\ roles' = [roles EXCEPT ![w] = "none"]
    /\ space' = [i \in DOMAIN space |->
                   IF space[i].wl = w THEN [space[i] EXCEPT !.alive = FALSE]
                   ELSE space[i]]
    /\ UNCHANGED <<surfaces, current, ncommit, dispatched,
                   next_surface_id, renderer_set, swapchain, pipeline_ready,
                   last_frame, presented, panicked>>
    /\ UNCHANGED owner
    /\ UNCHANGED <<sessVars, backVars, loopVars, lockVars>>
    /\ UNCHANGED extVars

\* wl_surface destruction of a surface without a role object: no handler of
\* this repository runs.
surface_destroyed(w) ==
    /\ ~panicked
    /\ w \in surfaces
    /\ roles[w] = "none"
    /\ surfaces' = surfaces \ {w}
    /\ current' = [current EXCEPT ![w] = NoCurrent]
    /\ owner' = [i \in Ids |-> IF owner[i] = w THEN 0 ELSE owner[i]]
    /\ UNCHANGED <<roles, ncommit, space, dispatched, surface_mapping,
                   next_surface_id, renderer_set, swapchain, pipeline_ready,
                   surface_textures, vertex_buffers, descriptor_sets,
                   destroyed_views, pool_sets, last_frame, presented, panicked>>
    /\ UNCHANGED <<sessVars, backVars, loopVars, lockVars>>
    /\ UNCHANGED extVars

\* ------------------------------------------------------------ session lock
\* SessionLockHandler::lock: the lock is confirmed at once; nothing else is
\* recorded or told to the renderer.
lock ==
    /\ ~panicked
    /\ ~locked
    /\ locked' = TRUE
    /\ UNCHANGED <<surfVars, sessVars, backVars, loopVars>>
    /\ UNCHANGED extVars

\* SessionLockHandler::unlock: only logs.
unlock ==
    /\ ~panicked
    /\ locked
    /\ locked' = FALSE
    /\ UNCHANGED <<surfVars, sessVars, backVars, loopVars>>
    /\ UNCHANGED extVars

\* SessionLockHandler::new_surface: the surface gets the lock-surface role;
\* the handler only logs.
lock_new_surface(w) ==
    /\ ~panicked
    /\ locked
    /\ w \in surfaces
    /\ roles[w] = "none"
    /\ roles' = [roles EXCEPT ![w] = "lock"]
    /\ UNCHANGED <<surfaces, current, ncommit, space, dispatched,
                   surface_mapping, next_surface_id, renderer_set, swapchain,
                   pipeline_ready, surface_textures, vertex_buffers,
                   descriptor_sets, destroyed_views, pool_sets, last_frame, presented,
                   panicked>>
    /\ UNCHANGED owner
    /\ UNCHANGED <<sessVars, backVars, loopVars, lockVars>>
    /\ UNCHANGED extVars

\* ------------------------------------------------------------ renderer API
\* WaylandServer::set_renderer / SurfaceManager::set_renderer
set_renderer ==
    /\ ~panicked
    /\ ~renderer_set
    /\ next_surface_id = 1
    /\ renderer_set' = TRUE
    /\ UNCHANGED <<surfaces, roles, current, ncommit, space,
                   dispatched, surface_mapping, next_surface_id, swapchain,
                   pipeline_ready, surface_textures, vertex_buffers,
                   descriptor_sets, destroyed_views, pool_sets, last_frame, presented,
                   panicked>>
    /\ UNCHANGED owner
    /\ UNCHANGED <<sessVars, backVars, loopVars, lockVars>>
    /\ UNCHANGED extVars

\* VulkanRenderer::initialize_swapchain: the compositor renderer is only
\* initialised when self.swapchain is already Some, i.e. from the second call.
initialize_swapchain ==
    /\ ~panicked
    /\ ~(swapchain /\ pipeline_ready)
    /\ next_surface_id = 1
    /\ pipeline_ready' = (pipeline_ready \/ swapchain)
    /\ swapchain' = TRUE
    /\ UNCHANGED <<surfaces, roles, current, ncommit, space,
                   dispatched, surface_mapping, next_surface_id, renderer_set,
                   surface_textures, vertex_buffers, descriptor_sets,
                   destroyed_views, pool_sets, last_frame, presented, panicked>>
    /\ UNCHANGED owner
    /\ UNCHANGED <<sessVars, backVars, loopVars, lockVars>>
    /\ UNCHANGED extVars

\* SurfaceRenderer::get_all_textures: HashMap iteration, any order.
Perms(S) ==
    {f \in [1..Cardinality(S) -> S] :
        \A i, j \in 1..Cardinality(S) : i # j => f[i] # f[j]}

get_all_textures(tex) == Perms({i \in Ids : tex[i] # NoTexture})

\* CompositorRenderer::render_surfaces: draws in iteration order; a missing
\* vertex buffer or descriptor set is an Err that aborts the frame.
render_surfaces(order) ==
    \A k \in DOMAIN order : vertex_buffers[order[k]] /\ descriptor_sets[order[k]] # 0

\* VulkanRenderer::end_frame with a swapchain: acquire, render_frame(0, ..),
\* present.  command_buffers[0] panics while the compositor renderer has no
\* command buffers.
end_frame ==
    /\ ~panicked
    /\ swapchain
    /\ IF ~pipeline_ready
       THEN /\ panicked' = TRUE
            /\ UNCHANGED <<last_frame, presented>>
       ELSE /\ \E order \in get_all_textures(surface_textures) :
                 /\ render_surfaces(order)
                 /\ last_frame' = order
                 /\ presented' = presented \cup
                        {surface_textures[order[k]].view : k \in DOMAIN order}
            /\ UNCHANGED panicked
    /\ UNCHANGED <<surfaces, roles, current, ncommit, space,
                   dispatched, surface_mapping, next_surface_id, renderer_set,
                   swapchain, pipeline_ready, surface_textures, vertex_buffers,
                   descriptor_sets, destroyed_views, pool_sets>>
    /\ UNCHANGED owner
    /\ UNCHANGED <<sessVars, backVars, loopVars, lockVars>>
    /\ UNCHANGED extVars

\* ---------------------------------------------------------- session helper
Min(S) == CHOOSE x \in S : \A y \in S : x <= y

\* SessionManager::new: channels are created, the helper thread is spawned,
\* the state starts as Inactive.  Always Ok.
SessionManager_new ==
    /\ sm = "none"
    /\ proc = "running"
    /\ sm' = "live"
    /\ sm_state' = "Inactive"
    /\ thread' = "spawned"
    /\ UNCHANGED <<call, last_acquire, released, command_q, event_q, response, seat,
                   device_fds, open_fds, notified>>
    /\ UNCHANGED <<lockVars, surfVars, backVars, loopVars>>
    /\ UNCHANGED extVars

\* The closure handed to Seat::open: Enable -> Activated, Disable ->
\* Deactivated on the event channel.
callback(ev, q) ==
    IF ev = "Enable" THEN Append(q, "Activated") ELSE Append(q, "Deactivated")

\* A thread end that leaves the queued request and its response sender
\* alive.
receiver_kept(resp) == resp

\* The helper thread ends and drops command_rx: a request still queued is
\* dropped with its response_tx, so the recv() of the caller blocked on it
\* returns Err (disconnected).
receiver_dropped(resp) ==
    IF call # NoCall THEN [kind |-> "disconnected", fd |-> 0] ELSE resp

\* SessionThread::initialize_seat, the first statement of SessionThread::run.
\* When Seat::open fails run() returns: the thread ends, both of its channel
\* ends are dropped, nothing is sent.  When it succeeds an Activated event
\* is sent whatever the seat's state.
initialize_seat ==
    /\ thread = "spawned"
    /\ \E opened \in BOOLEAN :
         IF opened
         THEN /\ seat' = TRUE
              /\ thread' = "serving"
              /\ event_q' = Append(event_q, "Activated")
              /\ UNCHANGED <<command_q, response>>
         ELSE /\ thread' = "exited"
              /\ command_q' = <<>>
              /\ response' = receiver_dropped(response)
              /\ UNCHANGED <<seat, event_q>>
    /\ UNCHANGED <<sm, sm_state, call, last_acquire, released, device_fds, open_fds,
                   notified>>
    /\ UNCHANGED <<lockVars, surfVars, backVars, loopVars>>
    /\ UNCHANGED extVars

\* libseat invokes the callback: the seat was enabled or disabled.
seat_callback(ev) ==
    /\ seat
    /\ ev # notified
    /\ Len(event_q) < MaxEvents
    /\ notified' = ev
    /\ event_q' = callback(ev, event_q)
    /\ UNCHANGED <<sm, sm_state, call, last_acquire, released, command_q, response,
                   thread, seat, device_fds, open_fds>>
    /\ UNCHANGED <<lockVars, surfVars, backVars, loopVars>>
    /\ UNCHANGED extVars

\* SessionThread::handle_acquire_device: the seat opens the device; the
\* descriptor is recorded under the path and handed out.  libseat refuses
\* while the seat is disabled, the kernel hands out the lowest free number.
handle_acquire_device(fds, open, path) ==
    IF seat /\ notified # "Disable" /\ path # "absent" /\ Fds \ open # {}
    THEN LET fd == Min(Fds \ open)
         IN [fds |-> [fds EXCEPT ![path] = fd], open |-> open \cup {fd},
             response |-> [kind |-> "ok", fd |-> fd]]
    ELSE [fds |-> fds, open |-> open, response |-> [kind |-> "err", fd |-> 0]]

\* SessionThread::handle_release_device: untrack every path with this
\* descriptor, close(fd) whatever it is, Ok.
handle_release_device(fds, open, fd) ==
    [fds |-> [p \in Paths |-> IF fds[p] = fd THEN 0 ELSE fds[p]],
     open |-> open \ {fd},
     response |-> [kind |-> "ok", fd |-> 0]]

\* A cleanup that forgets the descriptors without closing them.
cleanup_without_close(fds, open) == [fds |-> [p \in Paths |-> 0], open |-> open]

\* SessionThread::cleanup: close every tracked descriptor, clear, drop seat.
cleanup(fds, open) ==
    [fds |-> [p \in Paths |-> 0], open |-> open \ {fds[p] : p \in Paths}]

\* One iteration of the loop of SessionThread::run: receive a message and
\* handle it.  Shutdown leaves the loop and runs cleanup.
SessionThread_run ==
    /\ thread = "serving"
    /\ command_q # <<>>
    /\ LET m == Head(command_q)
       IN CASE m.op = "AcquireDevice" ->
                 LET r == handle_acquire_device(device_fds, open_fds, m.path)
                 IN /\ device_fds' = r.fds
                    /\ open_fds' = r.open
                    /\ response' = r.response
                    /\ command_q' = Tail(command_q)
                    /\ UNCHANGED <<thread, seat>>
            [] m.op = "ReleaseDevice" ->
                 LET r == handle_release_device(device_fds, open_fds, m.fd)
                 IN /\ device_fds' = r.fds
                    /\ open_fds' = r.open
                    /\ response' = r.response
                    /\ command_q' = Tail(command_q)
                    /\ UNCHANGED <<thread, seat>>
            [] OTHER ->
                 LET r == cleanup(device_fds, open_fds)
                 IN /\ device_fds' = r.fds
                    /\ open_fds' = r.open
                    /\ seat' = FALSE
                    /\ thread' = "exited"
                    /\ command_q' = <<>>
                    /\ UNCHANGED response
    /\ UNCHANGED <<sm, sm_state, call, last_acquire, released, event_q, notified>>
    /\ UNCHANGED <<lockVars, surfVars, backVars, loopVars>>
    /\ UNCHANGED extVars

\* SessionManager::acquire_device up to the blocking recv: the command is
\* sent without looking at self.state.  A send to an ended thread fails.
acquire_device(path) ==
    /\ sm = "live"
    /\ call = NoCall
    /\ IF thread = "exited"
       THEN /\ last_acquire' = [ok |-> FALSE, fd |-> 0, state |-> sm_state]
            /\ UNCHANGED <<call, command_q>>
       ELSE /\ command_q' = Append(command_q,
                   [op |-> "AcquireDevice", path |-> path, fd |-> 0])
            /\ call' = [op |-> "acquire", path |-> path, fd |-> 0]
            /\ UNCHANGED last_acquire
    /\ UNCHANGED released
    /\ UNCHANGED <<sm, sm_state, event_q, response, thread, seat, device_fds,
                   open_fds, notified>>
    /\ UNCHANGED <<lockVars, surfVars, backVars, loopVars>>
    /\ UNCHANGED extVars

\* SessionManager::release_device up to the blocking recv.
release_device(fd) ==
    /\ sm = "live"
    /\ call = NoCall
    /\ thread # "exited"
    /\ command_q' = Append(command_q,
            [op |-> "ReleaseDevice", path |-> "", fd |-> fd])
    /\ call' = [op |-> "release", path |-> "", fd |-> fd]
    /\ UNCHANGED <<sm, sm_state, last_acquire, released, event_q, response, thread, seat,
                   device_fds, open_fds, notified>>
    /\ UNCHANGED <<lockVars, surfVars, backVars, loopVars>>
    /\ UNCHANGED extVars

\* response_rx.recv() of acquire_device / release_device returns.
call_return ==
    /\ call # NoCall
    /\ response # NoResponse
    /\ last_acquire' = IF call.op = "acquire"
                       THEN [ok |-> response.kind = "ok", fd |-> response.fd,
                             state |-> sm_state]
                       ELSE last_acquire
    /\ released' = IF call.op = "release" /\ response.kind = "ok"
                   THEN released \cup {call.fd}
                   ELSE released
    /\ call' = NoCall
    /\ response' = NoResponse
    /\ UNCHANGED <<sm, sm_state, command_q, event_q, thread, seat, device_fds,
                   open_fds, notified>>
    /\ UNCHANGED <<lockVars, surfVars, backVars, loopVars>>
    /\ UNCHANGED extVars

\* A drain in which the first event, not the last, decides the state.
StateAfterFirst(st, q) ==
    IF q = <<>> THEN st
    ELSE CASE q[1] = "Activated" -> "Active"
           [] q[1] = "Deactivated" -> "Inactive"
           [] OTHER -> "Terminating"

\* The state after SessionManager::poll_events drained `q`.
StateAfter(st, q) ==
    IF q = <<>> THEN st
    ELSE CASE q[Len(q)] = "Activated" -> "Active"
           [] q[Len(q)] = "Deactivated" -> "Inactive"
           [] OTHER -> "Terminating"

\* SessionManager::poll_events: try_recv until the channel is empty.
poll_events ==
    /\ sm = "live"
    /\ call = NoCall
    /\ sm_state' = StateAfter(sm_state, event_q)
    /\ event_q' = <<>>
    /\ UNCHANGED <<sm, call, last_acquire, released, command_q, response, thread, seat,
                   device_fds, open_fds, notified>>
    /\ UNCHANGED <<lockVars, surfVars, backVars, loopVars>>
    /\ UNCHANGED extVars

\* event_tx.send(ev): a SessionEvent of any kind is put on the channel.
SessionEvents == {"Activated", "Deactivated", "Terminated"}

event_sent(ev) ==
    /\ sm = "live"
    /\ Len(event_q) < MaxEvents
    /\ event_q' = Append(event_q, ev)
    /\ UNCHANGED <<sm, sm_state, call, last_acquire, released, command_q, response,
                   thread, seat, device_fds, open_fds, notified>>
    /\ UNCHANGED <<lockVars, surfVars, backVars, loopVars>>
    /\ UNCHANGED extVars

\* Drop for SessionManager: send Shutdown (a failed send is ignored), then
\* join the thread.
SendShutdown(q) ==
    IF thread = "exited" THEN q
    ELSE Append(q, [op |-> "Shutdown", path |-> "", fd |-> 0])

SessionManager_drop ==
    /\ sm = "live"
    /\ call = NoCall
    /\ backend_pc = "start"
    /\ sm' = "dropping"
    /\ command_q' = SendShutdown(command_q)
    /\ UNCHANGED <<sm_state, call, last_acquire, released, event_q, response, thread,
                   seat, device_fds, open_fds, notified>>
    /\ UNCHANGED <<lockVars, surfVars, backVars, loopVars>>
    /\ UNCHANGED extVars

\* handle.join() of Drop returns once the thread has ended.
drop_join ==
    /\ sm = "dropping"
    /\ thread = "exited"
    /\ sm' = "dropped"
    /\ UNCHANGED <<sm_state, call, last_acquire, released, command_q, event_q, response,
                   thread, seat, device_fds, open_fds, notified>>
    /\ UNCHANGED <<lockVars, surfVars, backVars, loopVars>>
    /\ UNCHANGED extVars

\* ---------------------------------------------------------------- backend
\* Backend::can_use_drm: SessionManager::new and initialize both return Ok
\* unconditionally, so the answer does not depend on the seat.
can_use_drm == TRUE

\* Backend::new_with_type up to the activation loop of init_drm_backend.
new_with_type(t) ==
    /\ backend_pc = "start"
    /\ sm = "none"
    /\ proc = "running"
    /\ requested' = t
    /\ LET actual_type == IF t = "Auto"
                          THEN IF can_use_drm THEN "Drm" ELSE "Windowed"
                          ELSE t
       IN IF actual_type = "Windowed"
          THEN /\ backend_type' = "Windowed"
               /\ result' = "ok"
               /\ backend_pc' = "done"
               /\ UNCHANGED <<sm, thread>>
          ELSE /\ sm' = "live"
               /\ thread' = "spawned"
               /\ backend_pc' = "wait"
               /\ UNCHANGED <<backend_type, result>>
    /\ UNCHANGED <<polls, elapsed>>
    /\ UNCHANGED <<sm_state, call, last_acquire, released, command_q, event_q, response,
                   seat, device_fds, open_fds, notified>>
    /\ UNCHANGED <<lockVars, surfVars, loopVars>>
    /\ UNCHANGED extVars

\* One iteration of the activation loop: dispatch_events(Some(10)) polls and
\* sleeps; an active session leaves the loop, otherwise sleep again.
init_drm_poll ==
    /\ backend_pc = "wait"
    /\ polls < StartupPolls
    /\ LET st == StateAfter(sm_state, event_q)
       IN /\ sm_state' = st
          /\ event_q' = <<>>
          /\ polls' = polls + 1
          /\ IF st = "Active"
             THEN /\ elapsed' = elapsed + PollSleepMs
                  /\ backend_pc' = "check"
             ELSE /\ elapsed' = elapsed + PollSleepMs + PollSleepMs
                  /\ backend_pc' = IF polls + 1 = StartupPolls
                                   THEN "check" ELSE "wait"
    /\ UNCHANGED <<requested, backend_type, result>>
    /\ UNCHANGED <<sm, call, last_acquire, released, command_q, response, thread, seat,
                   device_fds, open_fds, notified>>
    /\ UNCHANGED <<lockVars, surfVars, loopVars>>
    /\ UNCHANGED extVars

\* After the loop: an inactive session is an Err (the session manager is
\* dropped on the way out), an active one gives the DRM backend.
init_drm_finish ==
    /\ backend_pc = "check"
    /\ IF sm_state # "Active"
       THEN /\ result' = "err"
            /\ sm' = "dropping"
            /\ command_q' = SendShutdown(command_q)
            /\ UNCHANGED backend_type
       ELSE /\ result' = "ok"
            /\ backend_type' = "Drm"
            /\ UNCHANGED <<sm, command_q>>
    /\ backend_pc' = "done"
    /\ UNCHANGED <<requested, polls, elapsed>>
    /\ UNCHANGED <<sm_state, call, last_acquire, released, event_q, response, thread,
                   seat, device_fds, open_fds, notified>>
    /\ UNCHANGED <<lockVars, surfVars, loopVars>>
    /\ UNCHANGED extVars

\* ------------------------------------------------- run loop and the process
\* Compositor::new never calls setup_signal_handlers (it is dead code).
handlers_installed == FALSE

\* Compositor::run up to the first poll of run_async: the background task
\* is spawned and the Wayland loop starts.
run ==
    /\ proc = "running"
    /\ run_pc = "created"
    /\ backend_pc = "done" /\ result = "ok"
    /\ run_pc' = "loop"
    /\ loop_pc' = "dispatch_clients"
    /\ bg' = "check"
    /\ UNCHANGED <<stop_signal, running, proc, received>>
    /\ UNCHANGED <<lockVars, surfVars, sessVars, backVars>>
    /\ UNCHANGED extVars

\* WaylandServer::run_async, one statement of the loop body each; an Err
\* leaves the loop.
dispatch_clients ==
    /\ proc = "running"
    /\ loop_pc = "dispatch_clients"
    /\ \E ok \in BOOLEAN :
         /\ loop_pc' = IF ok THEN "flush_clients" ELSE "terminated"
         /\ loop_error' = IF ok THEN loop_error ELSE "dispatch_clients"
    /\ UNCHANGED <<run_pc, stop_signal, running, bg, proc, received>>
    /\ UNCHANGED <<lockVars, surfVars, sessVars, backVars>>
    /\ UNCHANGED <<new_pc, init_error, exit_code>>
    /\ UNCHANGED <<clockVars, vkVars, decoVars, pdVars, memVars>>

flush_clients ==
    /\ proc = "running"
    /\ loop_pc = "flush_clients"
    /\ \E ok \in BOOLEAN :
         /\ loop_pc' = IF ok THEN "dispatch" ELSE "terminated"
         /\ loop_error' = IF ok THEN loop_error ELSE "flush_clients"
    /\ UNCHANGED <<run_pc, stop_signal, running, bg, proc, received>>
    /\ UNCHANGED <<lockVars, surfVars, sessVars, backVars>>
    /\ UNCHANGED <<new_pc, init_error, exit_code>>
    /\ UNCHANGED <<clockVars, vkVars, decoVars, pdVars, memVars>>

\* event_loop.dispatch(16 ms): one dispatch; the stop flag of the loop
\* signal is only read by EventLoop::run, which is not used.
dispatch ==
    /\ proc = "running"
    /\ loop_pc = "dispatch"
    /\ \E ok \in BOOLEAN :
         /\ loop_pc' = IF ok THEN "yield_now" ELSE "terminated"
         /\ loop_error' = IF ok THEN loop_error ELSE "dispatch"
    /\ UNCHANGED <<run_pc, stop_signal, running, bg, proc, received>>
    /\ UNCHANGED <<lockVars, surfVars, sessVars, backVars>>
    /\ UNCHANGED <<new_pc, init_error, exit_code>>
    /\ UNCHANGED <<clockVars, vkVars, decoVars, pdVars, memVars>>

yield_now ==
    /\ proc = "running"
    /\ loop_pc = "yield_now"
    /\ loop_pc' = "dispatch_clients"
    /\ UNCHANGED <<run_pc, stop_signal, running, bg, proc, received>>
    /\ UNCHANGED <<lockVars, surfVars, sessVars, backVars>>
    /\ UNCHANGED extVars

\* A background task that goes round again whatever the flag says.
bg_check_spinning ==
    /\ proc = "running"
    /\ bg = "check"
    /\ bg' = "process"
    /\ UNCHANGED <<run_pc, loop_pc, stop_signal, running, proc, received>>
    /\ UNCHANGED <<lockVars, surfVars, sessVars, backVars>>
    /\ UNCHANGED extVars

\* The background task: `while running.load()`.
bg_check ==
    /\ proc = "running"
    /\ bg = "check"
    /\ bg' = IF running THEN "process" ELSE "completed"
    /\ UNCHANGED <<run_pc, loop_pc, stop_signal, running, proc, received>>
    /\ UNCHANGED <<lockVars, surfVars, sessVars, backVars>>
    /\ UNCHANGED extVars

\* A process_events that ends the process when the session is not active.
process_events_exiting ==
    /\ proc = "running"
    /\ bg = "process"
    /\ sm_state' = StateAfter(sm_state, event_q)
    /\ event_q' = <<>>
    /\ proc' = IF backend_type = "Drm" /\ sm_state' # "Active"
               THEN "exited" ELSE proc
    /\ bg' = "check"
    /\ UNCHANGED <<run_pc, loop_pc, stop_signal, running, received>>
    /\ UNCHANGED <<sm, call, last_acquire, released, command_q, response,
                   thread, seat, device_fds, open_fds, notified>>
    /\ UNCHANGED <<lockVars, surfVars, backVars>>
    /\ UNCHANGED extVars

\* Backend::process_events and the 16 ms sleep: the DRM backend polls the
\* session (and only warns when it is inactive), the windowed one yields.
process_events ==
    /\ proc = "running"
    /\ bg = "process"
    /\ IF backend_type = "Drm"
       THEN /\ sm_state' = StateAfter(sm_state, event_q)
            /\ event_q' = <<>>
       ELSE UNCHANGED <<sm_state, event_q>>
    /\ bg' = "check"
    /\ UNCHANGED <<run_pc, loop_pc, stop_signal, running, proc, received>>
    /\ UNCHANGED <<sm, call, last_acquire, released, command_q, response, thread, seat,
                   device_fds, open_fds, notified>>
    /\ UNCHANGED <<lockVars, surfVars, backVars>>
    /\ UNCHANGED extVars

\* WaylandServer::run_async: every `break` out of the loop is followed by
\* Ok(()).
run_async_result == "ok"

\* main: an Err from Compositor::new or Compositor::run is returned from
\* main (exit status 1), Ok(()) is exit status 0.
exit_status(r) == IF r = "ok" THEN 0 ELSE 1

\* Compositor::run after run_async returned: clear the flag, then wait for
\* the background task; run returns what run_async returned.
run_store ==
    /\ proc = "running"
    /\ run_pc = "loop"
    /\ loop_pc = "terminated"
    /\ running' = FALSE
    /\ run_pc' = "join"
    /\ UNCHANGED <<loop_pc, stop_signal, bg, proc, received>>
    /\ UNCHANGED <<lockVars, surfVars, sessVars, backVars>>
    /\ UNCHANGED extVars

run_join ==
    /\ proc = "running"
    /\ run_pc = "join"
    /\ bg = "completed"
    /\ run_pc' = "returned"
    /\ proc' = "exited"
    /\ exit_code' = exit_status(run_async_result)
    /\ UNCHANGED <<loop_pc, stop_signal, running, bg, received>>
    /\ UNCHANGED <<lockVars, surfVars, sessVars, backVars>>
    /\ UNCHANGED <<new_pc, init_error, loop_error>>
    /\ UNCHANGED <<clockVars, vkVars, decoVars, pdVars, memVars>>

\* Compositor::shutdown: clears the flag and calls WaylandServer::shutdown.
\* It takes &mut self, so it can only run before run() consumes the value.
Compositor_shutdown ==
    /\ proc = "running"
    /\ run_pc = "created"
    /\ backend_pc = "done" /\ result = "ok"
    /\ running
    /\ running' = FALSE
    /\ stop_signal' = TRUE
    /\ UNCHANGED <<run_pc, loop_pc, bg, proc, received>>
    /\ UNCHANGED <<lockVars, surfVars, sessVars, backVars>>
    /\ UNCHANGED extVars

\* WaylandServer::shutdown / a clone obtained from loop_signal(): stop().
shutdown ==
    /\ proc = "running"
    /\ run_pc \in {"created", "loop"}
    /\ backend_pc = "done" /\ result = "ok"
    /\ ~stop_signal
    /\ stop_signal' = TRUE
    /\ UNCHANGED <<run_pc, loop_pc, running, bg, proc, received>>
    /\ UNCHANGED <<lockVars, surfVars, sessVars, backVars>>
    /\ UNCHANGED extVars

\* SIGINT or SIGTERM is delivered.  With the handler task of
\* setup_signal_handlers the flag would be cleared; without it the default
\* disposition ends the process at once.
signal(sig) ==
    /\ proc = "running"
    /\ backend_pc = "done" /\ result = "ok"
    /\ received' = sig
    /\ IF handlers_installed
       THEN /\ running' = FALSE
            /\ UNCHANGED proc
       ELSE /\ proc' = "killed"
            /\ UNCHANGED running
    /\ UNCHANGED <<run_pc, loop_pc, stop_signal, bg>>
    /\ UNCHANGED <<lockVars, surfVars, sessVars, backVars>>
    /\ UNCHANGED extVars

\* ------------------------------------------------- main and Compositor::new
\* A step whose Err is dropped: construction goes on.
try_step_ignore(ok, next) == next

\* `.map_err(..)?` in Compositor::new: an Err ends construction.
try_step(ok, next) == IF ok THEN next ELSE "failed"

\* VulkanRenderer::new: instance, device, compositor renderer; each may
\* fail.  CompositorRenderer::new takes the instance by value, hands a clone
\* to the surface renderer and drops its own at return: Drop for
\* VulkanInstance calls destroy_instance on the shared handle.
VulkanRenderer_new ==
    /\ proc = "running"
    /\ new_pc = "start"
    /\ vk = "none"
    /\ \E ok \in BOOLEAN :
         /\ vk' = IF ok THEN "live" ELSE "failed"
         /\ vk_log' = IF ok THEN <<"destroy_instance">> ELSE vk_log
         /\ new_pc' = try_step(ok, "backend")
         /\ init_error' = IF ok THEN init_error ELSE "renderer"
    /\ UNCHANGED <<loop_error, exit_code>>
    /\ UNCHANGED <<clockVars, decoVars, pdVars, memVars>>
    /\ UNCHANGED <<surfVars, sessVars, backVars, loopVars, lockVars>>

\* Backend::new() inside Compositor::new: automatic selection.
Backend_new ==
    /\ new_pc = "backend"
    /\ new_with_type("Auto")

\* Backend::new().await returned.
Backend_new_returned ==
    /\ proc = "running"
    /\ new_pc = "backend"
    /\ backend_pc = "done"
    /\ new_pc' = try_step(result = "ok", "wayland")
    /\ init_error' = IF result = "ok" THEN init_error ELSE "backend"
    /\ UNCHANGED <<loop_error, exit_code>>
    /\ UNCHANGED <<clockVars, vkVars, decoVars, pdVars, memVars>>
    /\ UNCHANGED <<surfVars, sessVars, backVars, loopVars, lockVars>>

\* An Err return of Compositor::new drops the backend already built: Drop
\* for SessionManager sends Shutdown and joins the helper thread.
drop_backend(failed) ==
    IF failed /\ sm = "live"
    THEN /\ sm' = "dropping"
         /\ command_q' = SendShutdown(command_q)
    ELSE UNCHANGED <<sm, command_q>>

\* WaylandServer::new
WaylandServer_new ==
    /\ proc = "running"
    /\ new_pc = "wayland"
    /\ \E ok \in BOOLEAN :
         /\ new_pc' = try_step(ok, "wl_drm")
         /\ init_error' = IF ok THEN init_error ELSE "wayland"
         /\ drop_backend(~ok)
    /\ UNCHANGED <<loop_error, exit_code>>
    /\ UNCHANGED <<sm_state, call, last_acquire, released, event_q, response,
                   thread, seat, device_fds, open_fds, notified>>
    /\ UNCHANGED <<clockVars, vkVars, decoVars, pdVars, memVars>>
    /\ UNCHANGED <<surfVars, backVars, loopVars, lockVars>>

\* WaylandServer::initialize_wl_drm: every path returns Ok(()).
initialize_wl_drm ==
    /\ proc = "running"
    /\ new_pc = "wl_drm"
    /\ new_pc' = try_step(TRUE, "listen")
    /\ UNCHANGED <<init_error, loop_error, exit_code>>
    /\ UNCHANGED <<clockVars, vkVars, decoVars, pdVars, memVars>>
    /\ UNCHANGED <<surfVars, sessVars, backVars, loopVars, lockVars>>

\* WaylandServer::start_listening: binding the socket or inserting the
\* source may fail.
start_listening ==
    /\ proc = "running"
    /\ new_pc = "listen"
    /\ \E ok \in BOOLEAN :
         /\ new_pc' = try_step(ok, "done")
         /\ init_error' = IF ok THEN init_error ELSE "listen"
         /\ drop_backend(~ok)
    /\ UNCHANGED <<loop_error, exit_code>>
    /\ UNCHANGED <<sm_state, call, last_acquire, released, event_q, response,
                   thread, seat, device_fds, open_fds, notified>>
    /\ UNCHANGED <<clockVars, vkVars, decoVars, pdVars, memVars>>
    /\ UNCHANGED <<surfVars, backVars, loopVars, lockVars>>

\* main: `Compositor::new().await.context(..)?` returns the Err once the
\* values built so far have been dropped.
main_new_failed ==
    /\ proc = "running"
    /\ new_pc = "failed"
    /\ sm \notin {"live", "dropping"}
    /\ vk # "live"
    /\ proc' = "exited"
    /\ exit_code' = exit_status("err")
    /\ UNCHANGED <<run_pc, loop_pc, stop_signal, running, bg, received>>
    /\ UNCHANGED <<new_pc, init_error, loop_error>>
    /\ UNCHANGED <<clockVars, vkVars, decoVars, pdVars, memVars>>
    /\ UNCHANGED <<surfVars, sessVars, backVars, lockVars>>

\* main: compositor.run() on the value Compositor::new returned.
main_run ==
    /\ new_pc = "done"
    /\ run

\* The end of the background task of Compositor::run: the async block drops
\* the backend it owns, and Drop for SessionManager sends Shutdown and joins
\* the helper thread before the task counts as finished.
task_drop_backend ==
    /\ proc = "running"
    /\ bg = "completed"
    /\ sm = "live"
    /\ drop_backend(TRUE)
    /\ UNCHANGED <<sm_state, call, last_acquire, released, event_q, response,
                   thread, seat, device_fds, open_fds, notified>>
    /\ UNCHANGED <<surfVars, backVars, loopVars, lockVars>>
    /\ UNCHANGED extVars

\* compositor_handle.await returns when the task has finished, the drop of
\* its backend included.
run_join_task == sm \notin {"live", "dropping"} /\ run_join

\* Drop for VulkanRenderer and, after its body, the drop of each field it
\* took out, in field order: device_wait_idle; CompositorRenderer (its own
\* objects, then its device clone, its surface renderer with that one's
\* instance and device clones, its surface pipeline with its device
\* clone); the swapchain; the device; the instance.  Every clone of
\* VulkanDevice and VulkanInstance destroys the shared handle when dropped.
teardown_calls ==
    <<"device_wait_idle", "compositor_renderer", "destroy_device",
      "surface_renderer", "destroy_instance", "destroy_device">>
    \o (IF pipeline_ready THEN <<"surface_pipeline", "destroy_device">>
        ELSE <<>>)
    \o (IF swapchain THEN <<"swapchain">> ELSE <<>>)
    \o <<"destroy_device", "destroy_instance">>

VulkanRenderer_drop ==
    /\ proc = "running"
    /\ vk = "live"
    /\ vk' = "dropped"
    /\ vk_log' = vk_log \o teardown_calls
    /\ surface_textures' = [i \in Ids |-> NoTexture]
    /\ destroyed_views' = destroyed_views \cup
           {surface_textures[i].view : i \in {j \in Ids :
                                        surface_textures[j] # NoTexture}}
    /\ vertex_buffers' = [i \in Ids |-> FALSE]
    /\ descriptor_sets' = [i \in Ids |-> 0]
    /\ swapchain' = FALSE
    /\ pipeline_ready' = FALSE
    /\ UNCHANGED <<surfaces, roles, current, ncommit, space, dispatched,
                   surface_mapping, next_surface_id, renderer_set, pool_sets,
                   owner, last_frame, presented, panicked>>
    /\ UNCHANGED <<clockVars, mainVars, decoVars, pdVars, memVars>>
    /\ UNCHANGED <<sessVars, backVars, loopVars, lockVars>>

\* -------------------------------------------------- physical-device selection
\* What select_physical_device reads of a device: its device_type and
\* whether one of its queue families has the GRAPHICS flag.
DeviceTypes == {"DISCRETE_GPU", "INTEGRATED_GPU", "VIRTUAL_GPU", "CPU"}
PhysicalDevices == [device_type : DeviceTypes, graphics : BOOLEAN]
DeviceLists == UNION {[1..k -> PhysicalDevices] : k \in 0..MaxDevices}

\* Position of a device type in the order discrete, integrated, virtual,
\* software.
TypeRank(t) ==
    CASE t = "DISCRETE_GPU" -> 4
      [] t = "INTEGRATED_GPU" -> 3
      [] t = "VIRTUAL_GPU" -> 2
      [] t = "CPU" -> 1

\* VulkanDevice::select_physical_device: the loop returns at the first
\* device that has a graphics queue family; is_discrete is only logged.
\* 0 stands for the Err after the loop.
select_physical_device(devices) ==
    LET able == {i \in DOMAIN devices : devices[i].graphics}
    IN IF able = {} THEN 0 ELSE Min(able)

\* VulkanDevice::new: enumerate the devices, fail on an empty list, select.
VulkanDevice_new ==
    /\ proc = "running"
    /\ enumerated = <<>>
    /\ \E devices \in DeviceLists :
         /\ enumerated' = devices
         /\ selected' = IF devices = <<>> THEN 0
                        ELSE select_physical_device(devices)
    /\ UNCHANGED <<surfVars, sessVars, backVars, loopVars, lockVars>>
    /\ UNCHANGED <<clockVars, mainVars, vkVars, decoVars, memVars>>

\* ------------------------------------------------------------ xdg-decoration
\* zxdg_toplevel_decoration_v1::Mode as the handler sees it: the two modes
\* of the protocol and any other value of the non-exhaustive enum.
DecorationModes == {"ClientSide", "ServerSide", "Unknown"}

chosen_mode_as_requested(mode) == mode

\* The match of request_mode: the mode written to the pending state.
chosen_mode(mode) ==
    CASE mode = "ClientSide" -> "ClientSide"
      [] mode = "ServerSide" -> "ServerSide"
      [] OTHER -> "ServerSide"

\* with_pending_state(|state| state.decoration_mode = Some(mode)) followed
\* by send_configure, which carries the pending mode to the client.
set_mode_and_configure(w, mode, request) ==
    /\ decoration' = [decoration EXCEPT ![w] = mode]
    /\ configures' = [configures EXCEPT ![w] = Append(@, mode)]
    /\ deco_requests' = [deco_requests EXCEPT ![w] = Append(@, request)]
    /\ UNCHANGED <<surfVars, sessVars, backVars, loopVars, lockVars>>
    /\ UNCHANGED <<clockVars, mainVars, vkVars, pdVars, memVars>>

\* XdgDecorationHandler::new_decoration: the client created the decoration
\* object of toplevel w.
new_decoration(w) ==
    /\ proc = "running"
    /\ deco_requests[w] = <<>>
    /\ set_mode_and_configure(w, "ServerSide", "new_decoration")

\* XdgDecorationHandler::request_mode.
request_mode(w, mode) ==
    /\ proc = "running"
    /\ deco_requests[w] # <<>>
    /\ Len(deco_requests[w]) < MaxDecoRequests
    /\ set_mode_and_configure(w, chosen_mode(mode), mode)

\* XdgDecorationHandler::unset_mode.
unset_mode(w) ==
    /\ proc = "running"
    /\ deco_requests[w] # <<>>
    /\ Len(deco_requests[w]) < MaxDecoRequests
    /\ set_mode_and_configure(w, "ServerSide", "unset_mode")

\* --------------------------------------------------------- specifications
NextCommit ==
    \/ \E w \in WlIds : new_surface(w)
    \/ \E w \in WlIds, a \in PendingAttrs : wl_surface_commit(w, a)
    \/ set_renderer
    \/ initialize_swapchain
    \/ end_frame

SpecCommit == Init /\ [][NextCommit]_vars

NextCache ==
    \/ \E w \in WlIds : new_surface(w)
    \/ \E w \in WlIds, a \in {p \in PendingAttrs : p.frame_callbacks = 0} :
          wl_surface_commit(w, a)
    \/ \E w \in WlIds : new_toplevel(w)
    \/ \E w \in WlIds : toplevel_destroyed(w)
    \/ \E w \in WlIds : surface_destroyed(w)
    \/ set_renderer
    \/ initialize_swapchain

SpecCache == Init /\ [][NextCache]_vars

NextRender ==
    \/ \E w \in WlIds : new_surface(w)
    \/ \E w \in WlIds : new_toplevel(w)
    \/ \E w \in WlIds :
          wl_surface_commit(w, [buffer |-> [kind |-> "shm", pix |-> 0],
                                frame_callbacks |-> 0])
    \/ set_renderer
    \/ initialize_swapchain
    \/ end_frame

SpecRender == Init /\ [][NextRender]_vars

\* Surfaces, the renderer and the session lock.
NextLock ==
    \/ \E w \in WlIds : new_surface(w)
    \/ \E w \in WlIds : new_toplevel(w)
    \/ \E w \in WlIds : lock_new_surface(w)
    \/ \E w \in WlIds :
          wl_surface_commit(w, [buffer |-> [kind |-> "shm", pix |-> 0],
                                frame_callbacks |-> 0])
    \/ set_renderer
    \/ initialize_swapchain
    \/ end_frame
    \/ lock
    \/ unlock

SpecLock == Init /\ [][NextLock]_vars

\* The texture cache under SHM commits, role changes and id reuse.
NextTexture ==
    \/ \E w \in 1..MaxTextureWlId : new_surface(w)
    \/ \E w \in 1..MaxTextureWlId :
          wl_surface_commit(w, [buffer |-> [kind |-> "shm", pix |-> 0],
                                frame_callbacks |-> 0])
    \/ \E w \in 1..MaxTextureWlId : new_toplevel(w)
    \/ \E w \in 1..MaxTextureWlId : toplevel_destroyed(w)
    \/ \E w \in 1..MaxTextureWlId : surface_destroyed(w)
    \/ set_renderer

SpecTexture == Init /\ [][NextTexture]_vars

\* The session helper through its public interface.
NextSession ==
    \/ SessionManager_new
    \/ initialize_seat
    \/ \E ev \in {"Enable", "Disable"} : seat_callback(ev)
    \/ SessionThread_run
    \/ \E p \in Paths : acquire_device(p)
    \/ \E fd \in Fds : release_device(fd)
    \/ call_return
    \/ poll_events
    \/ SessionManager_drop
    \/ drop_join

SpecSession == Init /\ [][NextSession]_vars

\* poll_events against every content of the event channel.
NextPoll ==
    \/ SessionManager_new
    \/ \E ev \in SessionEvents : event_sent(ev)
    \/ poll_events

SpecPoll == Init /\ [][NextPoll]_vars

\* Surfaces, the renderer and the session state side by side.
NextPause ==
    \/ SessionManager_new
    \/ initialize_seat
    \/ \E ev \in {"Enable", "Disable"} : seat_callback(ev)
    \/ poll_events
    \/ \E w \in WlIds : new_surface(w)
    \/ \E w \in WlIds :
          wl_surface_commit(w, [buffer |-> [kind |-> "shm", pix |-> 0],
                                frame_callbacks |-> 0])
    \/ set_renderer
    \/ initialize_swapchain
    \/ end_frame

SpecPause == Init /\ [][NextPause]_vars

\* Backend creation.
NextBackend ==
    \/ \E t \in BackendTypes : new_with_type(t)
    \/ init_drm_poll
    \/ init_drm_finish
    \/ initialize_seat
    \/ \E ev \in {"Enable", "Disable"} : seat_callback(ev)
    \/ SessionThread_run
    \/ drop_join

SpecBackend == Init /\ [][NextBackend]_vars

\* The process from backend creation to its end.
NextLoop ==
    \/ \E t \in BackendTypes : new_with_type(t)
    \/ init_drm_poll
    \/ init_drm_finish
    \/ initialize_seat
    \/ \E ev \in {"Enable", "Disable"} : seat_callback(ev)
    \/ SessionThread_run
    \/ drop_join
    \/ run
    \/ dispatch_clients
    \/ flush_clients
    \/ dispatch
    \/ yield_now
    \/ bg_check
    \/ process_events
    \/ run_store
    \/ run_join
    \/ Compositor_shutdown
    \/ shutdown
    \/ \E sig \in Signals : signal(sig)

SpecLoop == Init /\ [][NextLoop]_vars

\* Client requests are handled inside display.dispatch_clients of the run
\* loop: the handler runs to completion before dispatch_clients returns.
client_new_surface(w) ==
    /\ run_pc = "loop"
    /\ loop_pc = "dispatch_clients"
    /\ proc = "running"
    /\ new_surface(w)

client_commit(w) ==
    /\ run_pc = "loop"
    /\ loop_pc = "dispatch_clients"
    /\ proc = "running"
    /\ wl_surface_commit(w, [buffer |-> [kind |-> "shm", pix |-> 0],
                             frame_callbacks |-> 0])

\* The process as main() runs it with the windowed backend: Compositor::new
\* connects no renderer, Compositor::run renders no frame.
NextFrame ==
    \/ new_with_type("Windowed")
    \/ run
    \/ \E w \in WlIds : client_new_surface(w)
    \/ \E w \in WlIds : client_commit(w)
    \/ dispatch_clients
    \/ flush_clients
    \/ dispatch
    \/ yield_now
    \/ bg_check
    \/ process_events
    \/ run_store
    \/ run_join

\* The tokio runtime keeps polling both tasks: a step that stays enabled is
\* taken.
SpecFrameFair ==
    /\ Init
    /\ [][NextFrame]_vars
    /\ WF_vars(dispatch_clients)
    /\ WF_vars(flush_clients)
    /\ WF_vars(dispatch)
    /\ WF_vars(yield_now)
    /\ WF_vars(bg_check)
    /\ WF_vars(process_events)
    /\ WF_vars(run_store)
    /\ WF_vars(run_join)

\* A client commits a buffer of any type inside dispatch_clients.
client_commit_buffer(w, kind) ==
    /\ run_pc = "loop"
    /\ loop_pc = "dispatch_clients"
    /\ proc = "running"
    /\ wl_surface_commit(w, [buffer |-> [kind |-> kind, pix |-> 0],
                             frame_callbacks |-> 0])

\* The run loop with a renderer connected and clients that commit SHM
\* buffers, DMA-BUFs and buffers of neither type; any GPU call may fail.
NextImport ==
    \/ new_with_type("Windowed")
    \/ set_renderer
    \/ initialize_swapchain
    \/ run
    \/ \E w \in 1..MaxTextureWlId : client_new_surface(w)
    \/ \E w \in 1..MaxTextureWlId, kind \in NewKinds :
          client_commit_buffer(w, kind)
    \/ dispatch_clients
    \/ flush_clients
    \/ dispatch
    \/ yield_now

SpecImport == Init /\ [][NextImport]_vars

\* The process as main() runs it: Compositor::new step by step, then the
\* run loop.  The renderer is dropped when Compositor::new fails after
\* building it and when the background task that holds it ends.
NextMain ==
    \/ VulkanRenderer_new
    \/ Backend_new
    \/ initialize_seat
    \/ \E ev \in {"Enable", "Disable"} : seat_callback(ev)
    \/ SessionThread_run
    \/ init_drm_poll
    \/ init_drm_finish
    \/ drop_join
    \/ Backend_new_returned
    \/ WaylandServer_new
    \/ initialize_wl_drm
    \/ start_listening
    \/ ((new_pc = "failed" \/ bg = "completed") /\ VulkanRenderer_drop)
    \/ main_new_failed
    \/ main_run
    \/ dispatch_clients
    \/ flush_clients
    \/ dispatch
    \/ yield_now
    \/ bg_check
    \/ process_events
    \/ run_store
    \/ (vk # "live" /\ run_join)

SpecMain == Init /\ [][NextMain]_vars

\* The process on the DRM backend with clients: the seat is already enabled
\* when the activation loop polls, and is disabled and enabled again while
\* the run loop serves clients.
NextDeactivate ==
    \/ new_with_type("Drm")
    \/ initialize_seat
    \/ \E ev \in {"Enable", "Disable"} : seat_callback(ev)
    \/ (StateAfter(sm_state, event_q) = "Active" /\ init_drm_poll)
    \/ init_drm_finish
    \/ run
    \/ \E w \in WlIds : client_new_surface(w)
    \/ \E w \in WlIds : client_commit(w)
    \/ dispatch_clients
    \/ flush_clients
    \/ dispatch
    \/ yield_now
    \/ bg_check
    \/ process_events
    \/ run_store
    \/ run_join

SpecDeactivate == Init /\ [][NextDeactivate]_vars

\* Clients commit SHM buffers with a frame callback while time passes.
NextClock ==
    \/ \E w \in 1..MaxTextureWlId : new_surface(w)
    \/ \E w \in 1..MaxTextureWlId :
          wl_surface_commit(w, [buffer |-> [kind |-> "shm", pix |-> 0],
                                frame_callbacks |-> MaxCallbacks])
    \/ tick

SpecClock == Init /\ [][NextClock]_vars

\* The logical device is created on a machine with any list of devices.
NextDevice == VulkanDevice_new

SpecDevice == Init /\ [][NextDevice]_vars

\* Surfaces are registered over a long run: clients create surfaces and
\* commit to them, and create and destroy many more.
NextIds ==
    \/ \E w \in WlIds : new_surface(w)
    \/ \E w \in WlIds :
          wl_surface_commit(w, [buffer |-> [kind |-> "shm", pix |-> 0],
                                frame_callbacks |-> 0])
    \/ surface_churn

SpecIds == Init /\ [][NextIds]_vars

\* The reactor calls acquire_device and release_device while the helper
\* thread starts, serves or fails; the helper thread is scheduled, and a
\* recv() whose response or disconnection has arrived returns.
NextCall ==
    \/ SessionManager_new
    \/ initialize_seat
    \/ \E ev \in {"Enable", "Disable"} : seat_callback(ev)
    \/ SessionThread_run
    \/ \E p \in Paths : acquire_device(p)
    \/ \E fd \in Fds : release_device(fd)
    \/ call_return

SpecCallFair ==
    /\ Init
    /\ [][NextCall]_vars
    /\ WF_vars(initialize_seat)
    /\ WF_vars(SessionThread_run)
    /\ WF_vars(call_return)

\* The session manager with its helper thread scheduled and the reactor
\* polling for events again and again.
SpecSessionFair ==
    /\ Init
    /\ [][NextSession]_vars
    /\ WF_vars(initialize_seat)
    /\ WF_vars(SessionThread_run)
    /\ WF_vars(call_return)
    /\ WF_vars(poll_events)

\* The same with the join of Drop scheduled as well.
SpecDropFair ==
    /\ Init
    /\ [][NextSession]_vars
    /\ WF_vars(initialize_seat)
    /\ WF_vars(SessionThread_run)
    /\ WF_vars(call_return)
    /\ WF_vars(poll_events)
    /\ WF_vars(drop_join)

\* Toplevels come and go while other surfaces keep their textures: the
\* renderer is connected and ready before the first client, a new surface
\* takes the lowest free protocol id, and clients commit to surfaces that
\* have the toplevel role.
NextRemove ==
    \/ (next_surface_id = 1 /\ set_renderer)
    \/ (renderer_set /\ initialize_swapchain)
    \/ \E w \in WlIds :
          /\ pipeline_ready
          /\ w \notin surfaces
          /\ \A u \in WlIds \ surfaces : w <= u
          /\ new_surface(w)
    \/ \E w \in WlIds :
          /\ roles[w] = "toplevel"
          /\ wl_surface_commit(w, [buffer |-> [kind |-> "shm", pix |-> 0],
                                   frame_callbacks |-> 0])
    \/ \E w \in WlIds : new_toplevel(w)
    \/ \E w \in WlIds : toplevel_destroyed(w)

SpecRemove == Init /\ [][NextRemove]_vars

\* ------------------------------------------------------------ MemoryTracker
otherVars == <<surfVars, sessVars, backVars, loopVars, lockVars, clockVars, mainVars, vkVars, decoVars, pdVars>>

\* Every atomic operation of a call is one step; the orderings are Relaxed
\* and each variable on its own is read and written atomically.
\* allocated: `fetch_add(size) + size`.
allocated_fetch_add(t, size) ==
    /\ tracker[t].pc = "idle"
    /\ total_allocated + size <= MaxBytes
    /\ total_allocated' = total_allocated + size
    /\ tracker' = [tracker EXCEPT ![t] =
            [pc |-> "load", current |-> total_allocated + size, peak |-> 0]]
    /\ UNCHANGED peak_allocated
    /\ UNCHANGED otherVars

\* allocated: `let mut peak = self.peak_allocated.load(..)`.
allocated_load(t) ==
    /\ tracker[t].pc = "load"
    /\ tracker' = [tracker EXCEPT ![t].pc = "while", ![t].peak = peak_allocated]
    /\ UNCHANGED <<total_allocated, peak_allocated>>
    /\ UNCHANGED otherVars

\* allocated: one round of `while current > peak`.  compare_exchange_weak
\* stores current when the value is still peak, and may fail although it
\* is; a failure hands back the value it found.
allocated_compare_exchange(t, spurious) ==
    /\ tracker[t].pc = "while"
    /\ IF tracker[t].current > tracker[t].peak
       THEN IF peak_allocated = tracker[t].peak /\ ~spurious
            THEN /\ peak_allocated' = tracker[t].current
                 /\ tracker' = [tracker EXCEPT ![t] = IdleCall]
            ELSE /\ tracker' = [tracker EXCEPT ![t].peak = peak_allocated]
                 /\ UNCHANGED peak_allocated
       ELSE /\ tracker' = [tracker EXCEPT ![t] = IdleCall]
            /\ UNCHANGED peak_allocated
    /\ UNCHANGED total_allocated
    /\ UNCHANGED otherVars

\* deallocated: one fetch_sub.  Callers give back what was allocated.
deallocated(t, size) ==
    /\ tracker[t].pc = "idle"
    /\ size <= total_allocated
    /\ total_allocated' = total_allocated - size
    /\ UNCHANGED <<peak_allocated, tracker>>
    /\ UNCHANGED otherVars

\* reset_peak: `let current = self.current_usage()`.
reset_peak_load(t) ==
    /\ tracker[t].pc = "idle"
    /\ tracker' = [tracker EXCEPT ![t] =
            [pc |-> "store", current |-> total_allocated, peak |-> 0]]
    /\ UNCHANGED <<total_allocated, peak_allocated>>
    /\ UNCHANGED otherVars

\* reset_peak: `self.peak_allocated.store(current)`.
reset_peak_store(t) ==
    /\ tracker[t].pc = "store"
    /\ peak_allocated' = tracker[t].current
    /\ tracker' = [tracker EXCEPT ![t] = IdleCall]
    /\ UNCHANGED total_allocated
    /\ UNCHANGED otherVars

\* Threads of the process call into MEMORY_TRACKER concurrently.
NextMemory ==
    \/ \E t \in Threads, size \in Sizes : allocated_fetch_add(t, size)
    \/ \E t \in Threads : allocated_load(t)
    \/ \E t \in Threads, spurious \in BOOLEAN : allocated_compare_exchange(t, spurious)
    \/ \E t \in Threads, size \in Sizes : deallocated(t, size)
    \/ \E t \in Threads : reset_peak_load(t)
    \/ \E t \in Threads : reset_peak_store(t)

SpecMemory == Init /\ [][NextMemory]_vars

\* Compositor::run on either backend, from the creation of the backend to
\* the return of run; both tasks and the helper thread are scheduled.
NextRun ==
    \/ \E t \in BackendTypes : new_with_type(t)
    \/ initialize_seat
    \/ \E ev \in {"Enable", "Disable"} : seat_callback(ev)
    \/ SessionThread_run
    \/ init_drm_poll
    \/ init_drm_finish
    \/ drop_join
    \/ run
    \/ dispatch_clients
    \/ flush_clients
    \/ dispatch
    \/ yield_now
    \/ bg_check
    \/ process_events
    \/ run_store
    \/ task_drop_backend
    \/ run_join_task

SpecRunFair ==
    /\ Init
    /\ [][NextRun]_vars
    /\ WF_vars(initialize_seat)
    /\ WF_vars(SessionThread_run)
    /\ WF_vars(drop_join)
    /\ WF_vars(bg_check)
    /\ WF_vars(process_events)
    /\ WF_vars(run_store)
    /\ WF_vars(task_drop_backend)
    /\ WF_vars(run_join_task)

\* Clients negotiate the decorations of their toplevels.
NextDecoration ==
    \/ \E w \in WlIds : new_decoration(w)
    \/ \E w \in WlIds, mode \in DecorationModes : request_mode(w, mode)
    \/ \E w \in WlIds : unset_mode(w)

SpecDecoration == Init /\ [][NextDecoration]_vars

\* ===================================================================== claims

\* C1: every frame callback on which done() has been called was dispatched
\* after a frame containing the texture of its commit had been presented.
C1_CallbackAfterPresent == \A d \in dispatched : d.presented

\* C2: with the renderer connected, for every live surface whose most recent
\* commit with a buffer was accepted by handle_surface_commit (it returned
\* Ok), the texture cache holds a texture for the surface with the pixel
\* contents of that buffer.
C2_TextureCurrency ==
    \A w \in surfaces :
        (renderer_set /\ current[w].handled = "ok" /\ surface_mapping[w] # 0) =>
            /\ surface_textures[surface_mapping[w]] # NoTexture
            /\ surface_textures[surface_mapping[w]].pix = current[w].buffer.pix

CanRender == swapchain /\ pipeline_ready /\ ~panicked

\* C3: whenever a frame can be rendered, the descriptor set kept for a
\* surface with a cached texture is bound to the image view of that texture
\* and not to an image view that has been destroyed.
C3_NoDanglingDescriptor ==
    CanRender =>
        \A i \in Ids :
            (surface_textures[i] # NoTexture /\ descriptor_sets[i] # 0) =>
                /\ descriptor_sets[i] = surface_textures[i].view
                /\ descriptor_sets[i] \notin destroyed_views

\* C4: every commit that attached a new buffer handed that buffer to
\* SurfaceManager::handle_surface_commit.
C4_CommitReachesCache ==
    \A w \in surfaces :
        current[w].buffer \in NewBuffers => current[w].handled # "skipped"

\* Two surfaces have each committed a buffer.
BothCommitted ==
    \E a, b \in surfaces :
        /\ a # b
        /\ current[a].buffer \in NewBuffers
        /\ current[b].buffer \in NewBuffers

\* Every committed buffer has been part of a presented frame.
AllVisible ==
    \A w \in surfaces :
        current[w].buffer \in NewBuffers => current[w].commit \in presented

\* C11: once two surfaces have committed, and for as long as the run loop
\* keeps going, a frame containing both commits is eventually presented.
C11_CommitsBecomeVisible ==
    (BothCommitted /\ loop_pc # "terminated") ~>
        (AllVisible \/ loop_pc = "terminated")

\* The surface ids drawn by a frame all belong to lock surfaces.
OnlyLockSurfaces(draws) ==
    \A k \in DOMAIN draws :
        \E w \in surfaces : surface_mapping[w] = draws[k] /\ roles[w] = "lock"

\* C12: a frame rendered while the session is locked draws lock surfaces
\* only.
C12_LockedFramesOnlyLock ==
    [][(locked /\ last_frame' # last_frame) => OnlyLockSurfaces(last_frame')]_vars

\* The cache entries held for the live surface w.
TexturesOf(w) ==
    {i \in Ids : owner[i] = w /\ surface_textures[i] # NoTexture}

CommittedOk(i) ==
    \E w \in surfaces :
        /\ surface_mapping'[w] = i
        /\ current'[w].commit = ncommit'
        /\ ncommit' # ncommit
        /\ current'[w].handled = "ok"

\* C14: a texture enters the cache for a surface only in a step that is a
\* successful commit with a buffer on that surface, so a surface whose
\* commits all returned an error has no texture.
C14_TextureOnlyBySuccessfulCommit ==
    [][\A i \in Ids :
          (surface_textures[i] = NoTexture /\ surface_textures'[i] # NoTexture)
              => CommittedOk(i)]_vars

\* C15: the descriptor sets taken from the pool do not outnumber the
\* surfaces that hold one, however many commits replace a surface's buffer.
C15_NoAccumulation ==
    pool_sets <= Cardinality({i \in Ids : descriptor_sets[i] # 0})

\* C16: a protocol id whose surface has been destroyed has no id mapping in
\* the surface manager, hence no texture in the cache.
C16_DestroyedSurfaceEvicted ==
    \A w \in WlIds \ surfaces : surface_mapping[w] = 0

\* C17: every window in the space is the window of an existing toplevel,
\* and every surface with the toplevel role has its window in the space.
C17_WindowWhileToplevel ==
    /\ \A k \in DOMAIN space : space[k].alive
    /\ \A w \in surfaces :
          roles[w] = "toplevel" =>
              \E k \in DOMAIN space : space[k].wl = w /\ space[k].alive

\* C5: an acquire_device call that returned a file descriptor was made while
\* the session state was Active; made in any other state it returns an
\* error and opens no device.
C5_AcquireOnlyWhileActive ==
    last_acquire.ok => last_acquire.state = "Active"

\* The session state an event names.
NamedBy(ev) ==
    CASE ev = "Activated" -> "Active"
      [] ev = "Deactivated" -> "Inactive"
      [] ev = "Terminated" -> "Terminating"

\* C18: a poll_events call leaves the event channel empty, and the session
\* state is then the one named by the last event that was pending, or the
\* state before the call when nothing was pending.
C18_PollDrains ==
    [][poll_events =>
          /\ event_q' = <<>>
          /\ sm_state' = IF event_q = <<>> THEN sm_state
                          ELSE NamedBy(event_q[Len(event_q)])]_vars

\* A poll has drained a channel whose last event was Terminated.
C18_PolledTerminated ==
    sm = "live" /\ sm_state = "Terminating" /\ event_q = <<>>

\* C22: when the commit handler gets an Err for the committed buffer, the
\* handler still completes: the process has not panicked, the client's
\* surface is still there and the run loop is where it was.
C22_ImportFailureContained ==
    [][\A w \in WlIds :
          (/\ ncommit' = ncommit + 1
           /\ current'[w].commit = ncommit'
           /\ current'[w].handled = "err") =>
          (/\ ~panicked'
           /\ w \in surfaces'
           /\ run_pc' = run_pc
           /\ loop_pc' = loop_pc
           /\ proc' = proc)]_vars

C22_FailedImportsLoopGoesOn ==
    /\ renderer_set
    /\ ~panicked
    /\ loop_pc = "flush_clients"
    /\ \E w \in surfaces :
         /\ current[w].buffer.kind = "shm"
         /\ current[w].handled = "err"
         /\ current[w].commit = MaxCommits

\* C23: once a step of Compositor::new has failed (the renderer, the
\* backend with its seat activation, the Wayland server or the listening
\* socket), the run loop is never entered and the process does not end
\* with status 0.
C23_InitFailureExitsNonZero ==
    init_error # "none" =>
        /\ run_pc = "created"
        /\ loop_pc = "idle"
        /\ exit_code # 0
        /\ proc = "exited" => exit_code = 1

C23_SeatNeverActiveExit ==
    /\ init_error = "backend"
    /\ polls = StartupPolls
    /\ sm_state # "Active"
    /\ proc = "exited"
    /\ exit_code = 1

\* C24: when Compositor::run has returned after an Err of dispatch_clients,
\* flush_clients or the event-loop dispatch ended the run loop, the process
\* ended with a status other than 0.
C24_LoopErrorReachesMain ==
    (run_pc = "returned" /\ loop_error # "none") => exit_code # 0

\* The session of the running DRM backend is not active.
MidSessionInactive ==
    /\ run_pc = "loop"
    /\ proc = "running"
    /\ backend_type = "Drm"
    /\ sm_state # "Active"

C27_RendererInvokedWhenDue ==
    (/\ run_pc = "loop"
     /\ loop_pc = "yield_now"
     /\ renderer_set /\ swapchain /\ pipeline_ready /\ ~panicked)
    => \A i \in Ids : surface_textures[i] # NoTexture
                         => surface_textures[i].view \in presented

\* Position of a teardown call in the order device-idle wait, compositor
\* renderer (with the renderers it owns), swapchain, device, instance.
TeardownRank(c) ==
    CASE c = "device_wait_idle" -> 0
      [] c \in {"compositor_renderer", "surface_renderer",
                "surface_pipeline"} -> 1
      [] c = "swapchain" -> 2
      [] c = "destroy_device" -> 3
      [] c = "destroy_instance" -> 4

\* The calls of the drop of the renderer: vk_log from its idle wait on.
TeardownLog ==
    LET first == CHOOSE i \in DOMAIN vk_log :
                    /\ vk_log[i] = "device_wait_idle"
                    /\ \A j \in 1..(i - 1) : vk_log[j] # "device_wait_idle"
    IN SubSeq(vk_log, first, Len(vk_log))

\* C28: once the renderer has been dropped, its teardown began with the
\* device-idle wait and then went in the order compositor renderer,
\* swapchain, device, instance: no call of a later stage precedes a call
\* of an earlier one.
C28_TeardownOrder ==
    vk = "dropped" =>
        /\ TeardownLog[1] = "device_wait_idle"
        /\ \A i, j \in DOMAIN TeardownLog :
              i < j => TeardownRank(TeardownLog[i]) <= TeardownRank(TeardownLog[j])

\* C29 as stated: for each surface the timestamp of every dispatched frame
\* callback is at least the timestamp of every callback dispatched earlier
\* for the same surface, over the whole run.
C29_TimestampsMonotone ==
    \A d1, d2 \in dispatched :
        (d1.wl = d2.wl /\ d1.commit < d2.commit) => d1.time <= d2.time

\* C29: for each surface the timestamp of every dispatched frame callback
\* is at least the timestamp of every callback dispatched earlier for the
\* same surface in the same period of 2^32 ms of the monotonic clock.
C29_MonotoneWithinPeriod ==
    \A d1, d2 \in dispatched :
        (d1.wl = d2.wl /\ d1.commit < d2.commit /\ d1.period = d2.period)
            => d1.time <= d2.time

\* Two callbacks of one surface were dispatched at different instants of
\* the second period of the clock.
C29_TwoCallbacksAfterWrap ==
    \E d1, d2 \in dispatched :
        /\ d1.wl = d2.wl /\ d1.commit < d2.commit
        /\ d1.period = 1 /\ d2.period = 1
        /\ d1.time = 16 /\ d2.time = 2147483647

\* C40: once the concurrent allocated, deallocated and reset_peak calls have
\* completed, peak_usage is at least current_usage.
C40_PeakAtLeastCurrent ==
    (\A t \in Threads : tracker[t].pc = "idle") => peak_allocated >= total_allocated

\* The helper thread leaves its loop in this step while the manager is being
\* dropped: each tracked descriptor is open, belongs to one path only, and is
\* closed by the step; nothing stays tracked for a later close.
ClosedOnceAtDrop ==
    /\ \A p \in Paths : device_fds[p] # 0 =>
          /\ device_fds[p] \in open_fds
          /\ device_fds[p] \notin open_fds'
          /\ \A q \in Paths \ {p} : device_fds[q] # device_fds[p]
    /\ \A p \in Paths : device_fds'[p] = 0

\* C39: dropping the SessionManager ends the helper thread in finite time,
\* whether the seat was initialised or not, and every descriptor the helper
\* still tracks is closed exactly once: by the cleanup step, and by nothing
\* after the thread has ended.
C39_DropEndsHelperAndClosesFds ==
    /\ (sm = "dropping") ~> (thread = "exited")
    /\ [][(sm = "dropping" /\ thread = "serving" /\ thread' = "exited")
            => ClosedOnceAtDrop]_vars
    /\ [][thread = "exited" => open_fds' = open_fds]_vars

\* The manager was dropped holding a descriptor that no release_device call
\* had given back; the helper has ended and the descriptor is closed.
C39_DroppedWithTrackedFd ==
    /\ sm = "dropped"
    /\ thread = "exited"
    /\ last_acquire.ok
    /\ last_acquire.fd \notin released
    /\ last_acquire.fd \notin open_fds

\* C38: once the Wayland event loop has returned, Compositor::run clears
\* the running flag, the background task ends, and run returns.
C38_RunReturns ==
    (run_pc = "loop" /\ loop_pc = "terminated")
        ~> (run_pc = "returned" /\ ~running /\ bg = "completed")

\* Compositor::run has returned on the DRM backend: the background task saw
\* the cleared flag and its backend was dropped, helper thread joined.
C38_ReturnedOnDrm ==
    /\ run_pc = "returned"
    /\ backend_type = "Drm"
    /\ ~running
    /\ bg = "completed"
    /\ sm = "dropped"

\* What a step that runs remove_surface for w may change.
RemoveFrame(w) ==
    LET i == surface_mapping[w]
    IN /\ surface_mapping'[w] = 0
       /\ next_surface_id' = next_surface_id
       /\ \A v \in WlIds \ {w} :
             /\ surface_mapping'[v] = surface_mapping[v]
             /\ surface_mapping[v] # 0 =>
                   surface_textures'[surface_mapping[v]]
                       = surface_textures[surface_mapping[v]]
       /\ i = 0 => UNCHANGED <<surface_mapping, surface_textures,
                               vertex_buffers, descriptor_sets,
                               destroyed_views, pool_sets>>
       /\ (i # 0 /\ renderer_set) =>
             /\ surface_textures'[i] = NoTexture
             /\ ~vertex_buffers'[i]
             /\ descriptor_sets'[i] = 0
       /\ \A j \in Ids \ {i} :
             /\ surface_textures'[j] = surface_textures[j]
             /\ vertex_buffers'[j] = vertex_buffers[j]
             /\ descriptor_sets'[j] = descriptor_sets[j]

C36_TerminatedReachesReactor ==
    (sm = "live" /\ thread = "exited")
        ~> (sm_state = "Terminating" \/ sm # "live")

\* C35: a call of acquire_device or release_device that is waiting for its
\* response always returns, whatever the helper thread does meanwhile.
C35_CallsReturn == (call # NoCall) ~> (call = NoCall)

\* The helper thread ended on a failed seat initialisation while a request
\* was queued, and the caller is about to get the disconnection.
C35_DisconnectedWhileQueued ==
    /\ call # NoCall
    /\ thread = "exited"
    /\ ~seat
    /\ response = [kind |-> "disconnected", fd |-> 0]

\* C34: whenever the texture cache holds a texture for a surface id, a
\* vertex buffer and a descriptor set exist for that id as well, after any
\* sequence of successful or failed updates and removals.
C34_TextureHasDrawResources ==
    (renderer_set /\ ~panicked) =>
        \A i \in Ids :
            surface_textures[i] # NoTexture
                => vertex_buffers[i] /\ descriptor_sets[i] # 0

\* C33: internal ids are never reused: no two live Wayland surfaces are
\* mapped to the same internal id, after any number of registrations.
C33_IdsNeverReused ==
    \A a, b \in surfaces :
        (a # b /\ surface_mapping[a] # 0 /\ surface_mapping[b] # 0)
            => surface_mapping[a] # surface_mapping[b]

\* C32: once initialize_swapchain has returned Ok, so that the renderer has
\* a swapchain, the compositor renderer holds the command buffers of the
\* swapchain images: frame index 0 refers to an existing command buffer.
C32_CommandBufferPerImage ==
    (swapchain /\ ~panicked) => pipeline_ready

\* C31: whenever the state of the session manager is Active, the most
\* recent notification of the seat library was an enable.
C31_ActiveOnlyWhenEnabled ==
    (sm = "live" /\ sm_state = "Active") => notified = "Enable"

\* C30: the device selected has the highest-ranked device type (discrete,
\* integrated, virtual, software) among the enumerated devices that have a
\* graphics-capable queue family, whatever the enumeration order.
C30_BestTypeSelected ==
    selected # 0 =>
        \A i \in DOMAIN enumerated :
            enumerated[i].graphics =>
                TypeRank(enumerated[selected].device_type)
                    >= TypeRank(enumerated[i].device_type)

\* C25: no request of a client makes the compositor panic: while clients
\* create surfaces and commit buffers of any type and size, the commit
\* handler never panics.
C25_NoPanicFromClients ==
    (proc = "running" /\ renderer_set) => ~panicked

\* C21: while the session of the running compositor is not active, the run
\* loop can still dispatch clients and every live surface can still commit,
\* and the backend step that finds the session inactive leaves the run
\* loop, the process and the clients' surfaces as they were.
C21_DeactivationKeepsServing ==
    /\ [](MidSessionInactive /\ loop_pc = "dispatch_clients" =>
            /\ ENABLED dispatch_clients
            /\ \A w \in surfaces :
                  ncommit < MaxCommits => ENABLED client_commit(w))
    /\ [][(run_pc = "loop" /\ proc = "running" /\ backend_type = "Drm"
             /\ bg = "process" /\ bg' = "check" /\ sm_state' # "Active") =>
            /\ loop_pc' = loop_pc
            /\ proc' = proc
            /\ running' = running
            /\ surfaces' = surfaces]_vars

C21_ServingWhileInactive ==
    /\ MidSessionInactive
    /\ notified = "Disable"
    /\ event_q = <<>>
    /\ loop_pc = "flush_clients"
    /\ ncommit > 0

\* C19: while a release_device call for a descriptor that an earlier
\* release_device already returned ok for is in progress, no device is
\* closed and no device is untracked.
C19_SecondReleaseNoEffect ==
    [][(call.op = "release" /\ call.fd \in released)
          => (open_fds' = open_fds /\ device_fds' = device_fds)]_vars

\* C20: once init_drm_backend has left its activation loop, it has slept
\* in that loop for at most 500 ms.
C20_WaitBounded ==
    backend_pc \in {"check", "done"} => elapsed <= WaitLimitMs

\* A step that hands work to the GPU: a texture upload (the staging copy
\* is submitted to the queue) or a frame.
TextureUploaded ==
    \E i \in Ids : /\ surface_textures'[i] # NoTexture
                   /\ surface_textures'[i] # surface_textures[i]

FrameSubmitted == last_frame' # last_frame \/ presented' # presented

\* The seat has been disabled and the session manager has taken note: its
\* state is Inactive and no notification is waiting.
SessionPaused ==
    /\ sm = "live"
    /\ sm_state = "Inactive"
    /\ notified = "Disable"
    /\ event_q = <<>>

\* C6: while the session is inactive no step uploads a texture or submits
\* a frame.
C6_NoGpuWorkWhilePaused ==
    [][SessionPaused => ~(TextureUploaded \/ FrameSubmitted)]_vars

\* C7: when backend creation with automatic selection ends and the seat
\* did not become active during the start-up loop, creation succeeded with
\* the windowed backend.
C7_FallbackToWindowed ==
    (backend_pc = "done" /\ requested = "Auto" /\ sm_state # "Active") =>
        (result = "ok" /\ backend_type = "Windowed")

\* C8: once the loop signal has been stopped, the event-loop dispatch that
\* returns next ends the run loop.
C8_StopEndsLoop ==
    [][(stop_signal /\ loop_pc = "dispatch" /\ loop_pc' # loop_pc) =>
          loop_pc' = "terminated"]_vars

\* C9: after SIGINT or SIGTERM has been delivered the process has not been
\* ended by the signal and shutdown has been initiated (the running flag is
\* cleared).
C9_GracefulOnSignal ==
    received # "none" => (proc # "killed" /\ ~running)


PosIn(seq, x) == CHOOSE k \in DOMAIN seq : seq[k] = x

BackToFront(draws, sp, mapping) ==
    \A i, j \in DOMAIN sp :
        LET a == mapping[sp[i].wl]
            b == mapping[sp[j].wl]
        IN (/\ i < j
            /\ sp[i].alive /\ sp[j].alive
            /\ \E k \in DOMAIN draws : draws[k] = a
            /\ \E k \in DOMAIN draws : draws[k] = b)
           => PosIn(draws, a) < PosIn(draws, b)

\* C10: in every frame recorded, if window A is below window B in the space
\* and both are drawn, A's draw comes before B's.
C10_BackToFront ==
    [][last_frame' # last_frame =>
          BackToFront(last_frame', space, surface_mapping)]_vars

====
